---- MODULE Spec2Model ----
(***************************************************************************)
(* Model of the segmented export pipeline of lexi-cut                      *)
(* (src-tauri/src/commands/export.rs) and of the helpers around it: the    *)
(* cache, the video server, frame extraction, the upload and the project   *)
(* storage.  Each part has its own specification over the shared state.    *)
(*                                                                         *)
(* Times are exact integers in an abstract time unit; an f64 quotient is   *)
(* an exact fraction [n, d] with d > 0, or d = 0 for the IEEE specials     *)
(* (n = 0 NaN, n = 1 +inf, n = -1 -inf).  External encoder processes, the  *)
(* scratch directory and the file at outputPath are the environment: each  *)
(* can fail wherever the code has a `?` or tests an exit status.           *)
(***************************************************************************)
EXTENDS Integers, Sequences, FiniteSets, TLC

\* ------------------------------------------------------------------ bounds
MaxSegs == 3
MaxDur == 2
LongDur == 20
MaxFade == 2
MaxSample == 2
MaxLines == 2

Durations == (1..MaxDur) \cup {LongDur}
FadeValues == 0..MaxFade
SampleTimes == 0..MaxSample
OutputPaths == {"out.mp4", "final.mp4"}
Presets == {"", "fast", "standard", "high", "FAST"}

\* Option<T>: None is the empty sequence, Some(x) the one-element sequence
None == <<>>
Some(x) == <<x>>

\* ---------------------------------------------------------- f64 arithmetic
Abs(x) == IF x < 0 THEN -x ELSE x
Sgn(x) == IF x < 0 THEN -1 ELSE IF x > 0 THEN 1 ELSE 0

RECURSIVE GCD(_, _)
GCD(a, b) == IF b = 0 THEN a ELSE GCD(b, a % b)

Frac(n, d) == LET g == GCD(Abs(n), d) IN [n |-> n \div g, d |-> d \div g]
F64(k) == [n |-> k, d |-> 1]
IsNaN(r) == r.d = 0 /\ r.n = 0
IsFinite(r) == r.d > 0

\* a / b on f64 values that are whole numbers
F64Div(a, b) == IF b = 0 THEN [n |-> Sgn(a), d |-> 0] ELSE Frac(a * Sgn(b), Abs(b))
\* r * k for a positive whole k
F64Mul(r, k) == IF r.d = 0 THEN r ELSE Frac(r.n * k, r.d)
\* k + r for a whole k
F64Add(k, r) == IF r.d = 0 THEN r ELSE Frac(k * r.d + r.n, r.d)
\* f64::min(r, k): a NaN operand yields the other operand
F64Min(r, k) ==
    IF r.d = 0 THEN (IF r.n < 0 THEN r ELSE F64(k))
    ELSE IF r.n <= k * r.d THEN r ELSE F64(k)
\* a <= b as IEEE compares it (false when either side is NaN)
F64Le(a, b) ==
    /\ ~IsNaN(a)
    /\ ~IsNaN(b)
    /\ IF a.d = 0 /\ b.d = 0 THEN a.n <= b.n
       ELSE IF a.d = 0 THEN a.n < 0
       ELSE IF b.d = 0 THEN b.n > 0
       ELSE a.n * b.d <= b.n * a.d

\* ------------------------------------------------------------------- state
VARIABLES
    pc,                 \* position of the export_video future
    segments,           \* Vec<ExportSegment> of the call
    output_path,        \* requested outputPath
    options,            \* Option<ExportOptions> of the call
    events,             \* ExportProgressEvents emitted on "export-progress"
    procs,              \* external processes spawned, in spawn order
    temp_dir,           \* scratch directory: "none", "exists", "removed"
    temp_files,         \* names of the files inside the scratch directory
    output_file,        \* file at outputPath: "absent", "partial", "complete"
    i,                  \* loop index of the segment loop
    accumulated_duration,
    segment_files,      \* Vec<String> of intermediate files pushed so far
    lines_read,         \* number of side-channel lines read from the child
    pipeline,           \* which function export_video called: "none", "fast", "fades"
    result,             \* value export_video returned
    fn_arg,             \* argument of the pure function under study
    fn_ret,             \* what it returned: None before the call, Some(value) after
    jobs,               \* concurrent export_video invocations, by invocation id
    channel,            \* events delivered on "export-progress", all invocations
    db,                 \* rows of the cache table, by (cid, data_type)
    mutex,              \* holder of CacheDb.conn's Mutex, 0 when free
    calls,              \* the cache command each caller is in
    cache_hist,         \* what callers have observed of the cache so far
    videos,             \* VideoServerState.videos: video id -> file path
    digest16,           \* the first 16 hex digits of SHA-256, by path
    video_tasks,        \* the get_video_url call or HTTP request each task is in
    video_hist,         \* the URLs returned and the ids inserted so far
    late_pc,            \* position of the upload_to_late future
    late_file_path,     \* file_path of the call
    late_local,         \* its local variables, None until assigned
    late_procs,         \* processes compress_video_if_needed spawned
    late_requests,      \* HTTP requests sent, in order
    late_ret,           \* value upload_to_late returned
    disk,               \* project.json of each project directory
    project_call,       \* the last project command and what it returned
    project_saved       \* the ProjectData of the last successful save, by id

export_vars == <<pc, segments, output_path, options, events, procs, temp_dir,
                 temp_files, output_file, i, accumulated_duration, segment_files,
                 lines_read, pipeline, result>>
pure_vars == <<fn_arg, fn_ret>>
jobs_vars == <<jobs, channel>>
cache_vars == <<db, mutex, calls, cache_hist>>
video_vars == <<videos, digest16, video_tasks, video_hist>>
late_vars == <<late_pc, late_file_path, late_local, late_procs, late_requests, late_ret>>
project_vars == <<disk, project_call, project_saved>>
vars == <<export_vars, pure_vars, jobs_vars, cache_vars, video_vars, late_vars,
          project_vars>>

\* the parts of the state a specification does not use stay as they start
PureParked == fn_arg = None /\ fn_ret = None
JobsParked == jobs = <<>> /\ channel = <<>>
CacheParked == db = <<>> /\ mutex = 0 /\ calls = <<>> /\ cache_hist = <<>>
VideoParked ==
    videos = <<>> /\ digest16 = <<>> /\ video_tasks = <<>> /\ video_hist = <<>>
LateParked ==
    /\ late_pc = "" /\ late_file_path = <<>> /\ late_local = <<>>
    /\ late_procs = <<>> /\ late_requests = <<>> /\ late_ret = <<>>
ProjectsParked == disk = <<>> /\ project_call = <<>> /\ project_saved = <<>>

\* ExportSegment: start_time, end_time and the optional audio fields
ExportSegment(s, e) ==
    [source_path |-> "clip.mp4", start_time |-> s, end_time |-> e,
     audio_source_path |-> None, audio_start_time |-> None, audio_end_time |-> None]

SegmentInputs == {ExportSegment(0, e) : e \in Durations}

RECURSIVE SeqsUpTo(_, _)
SeqsUpTo(S, k) ==
    IF k = 0 THEN {<<>>}
    ELSE LET shorter == SeqsUpTo(S, k - 1)
         IN shorter \cup {Append(q, x) : q \in {r \in shorter : Len(r) = k - 1}, x \in S}

\* ExportOptions; Default gives preset "" (fade_duration is then unused)
ExportOptions(p, f) == [preset |-> p, fade_duration |-> f]
OptionsInputs == {None} \cup {Some(ExportOptions(p, f)) : p \in Presets, f \in FadeValues}
unwrap_or_default(o) == IF o = None THEN ExportOptions("", 0) ELSE o[1]

\* ------------------------------------------------------------ pure helpers
duration_of(seg) == seg.end_time - seg.start_time

RECURSIVE sum_durations(_)
sum_durations(segs) ==
    IF segs = <<>> THEN 0 ELSE duration_of(Head(segs)) + sum_durations(Tail(segs))

saturating_sub_mut(a, b) == a
saturating_sub(a, b) == IF a >= b THEN a - b ELSE 0

is_empty_mut(segs) == FALSE
is_empty(segs) == Len(segs) = 0

use_fades_mut(opts) == opts.preset # "fast"
use_fades(opts) == opts.preset # "fast" /\ opts.preset # ""

fast_total_duration(segs) == sum_durations(segs)

fades_total_duration_mut(segs, fade) ==
    sum_durations(segs) - fade * Len(segs)

fades_total_duration(segs, fade) ==
    sum_durations(segs) - fade * saturating_sub(Len(segs), 1)

total_duration ==
    IF pipeline = "fades"
    THEN fades_total_duration(segments, unwrap_or_default(options).fade_duration)
    ELSE fast_total_duration(segments)

total_segments == Len(segments)

ExportProgressEvent(phase, cur, tot, ctime, ttime, fps, percent) ==
    [phase |-> phase, current_segment |-> cur, total_segments |-> tot,
     current_time |-> ctime, total_time |-> ttime, fps |-> fps,
     percent |-> percent]

\* emit_progress: the event is handed to app.emit and the outcome discarded
emit_progress(evs, phase, cur, tot, ctime, ttime, fps, percent) ==
    Append(evs, ExportProgressEvent(phase, cur, tot, ctime, ttime, fps, percent))

\* currentSegment of the event of loop index k
segment_number_mut(k) == k
segment_number(k) == k + 1

success_mut(status) == TRUE
success(status) == status = "ok"

\* Drop of the TempDir guard: the directory and everything in it is removed
TempDirDrop_mut(d) == d
TempDirDrop(d) == IF d = "exists" THEN "removed" ELSE d

Ok(path) == [tag |-> "Ok", val |-> path, seg |-> None]
Err(msg, seg) == [tag |-> "Err", val |-> msg, seg |-> seg]
NoResult == [tag |-> "pending", val |-> "", seg |-> None]

Process(kind, seg) == [kind |-> kind, seg |-> seg, status |-> "running"]
Exited(ps, status) == [ps EXCEPT ![Len(ps)].status = status]

\* return from export_fast / export_with_fades: locals go out of scope
Return(res) ==
    /\ result' = res
    /\ pc' = "done"
    /\ temp_dir' = TempDirDrop(temp_dir)
    /\ temp_files' = IF TempDirDrop(temp_dir) = "exists" THEN temp_files ELSE {}

\* ----------------------------------------------------------------- actions
ExportParked ==
    /\ pc = "idle"
    /\ segments = <<>>
    /\ output_path = ""
    /\ options = None
    /\ events = <<>>
    /\ procs = <<>>
    /\ temp_dir = "none"
    /\ temp_files = {}
    /\ output_file = "absent"
    /\ i = 0
    /\ accumulated_duration = 0
    /\ segment_files = <<>>
    /\ lines_read = 0
    /\ pipeline = "none"
    /\ result = NoResult

Init == ExportParked /\ PureParked /\ JobsParked /\ CacheParked /\ VideoParked /\ LateParked /\ ProjectsParked
\* export_video: reject an empty list, pick the pipeline
export_video ==
    /\ pc = "idle"
    /\ \E segs \in SeqsUpTo(SegmentInputs, MaxSegs), out \in OutputPaths, o \in OptionsInputs :
        /\ segments' = segs
        /\ output_path' = out
        /\ options' = o
        /\ IF is_empty(segs)
           THEN /\ result' = Err("No segments to export", None)
                /\ pc' = "done"
                /\ pipeline' = pipeline
           ELSE /\ result' = result
                /\ pc' = IF use_fades(unwrap_or_default(o))
                         THEN "export_with_fades" ELSE "export_fast"
                /\ pipeline' = IF use_fades(unwrap_or_default(o))
                               THEN "fades" ELSE "fast"
    /\ UNCHANGED <<events, procs, temp_dir, temp_files, output_file, i,
                   accumulated_duration, segment_files, lines_read>>
    /\ UNCHANGED <<pure_vars, jobs_vars, cache_vars, video_vars, late_vars, project_vars>>

\* export_fast, up to the segment loop: preparing event, TempDir::new
export_fast_prepare ==
    /\ pc = "export_fast"
    /\ events' = emit_progress(events, "preparing", 0, total_segments, None,
                               Some(total_duration), None, Some(F64(0)))
    /\ \E created \in BOOLEAN :
        IF created
        THEN /\ temp_dir' = "exists"
             /\ temp_files' = {}
             /\ pc' = "fast_loop"
             /\ result' = result
        ELSE /\ result' = Err("Failed to create temp dir", None)
             /\ pc' = "done"
             /\ UNCHANGED <<temp_dir, temp_files>>
    /\ i' = 0
    /\ accumulated_duration' = 0
    /\ segment_files' = <<>>
    /\ UNCHANGED <<pipeline, segments, output_path, options, procs, output_file, lines_read>>
    /\ UNCHANGED <<pure_vars, jobs_vars, cache_vars, video_vars, late_vars, project_vars>>

\* temp_path.join("segment_{:04}.mp4") and temp_path.join("concat_list.txt")
segment_file(k) == <<"segment", k>>
concat_list_path == <<"concat_list", 0>>

\* ----------------------------------------------------------- command lines
\* format!("{:.3}", x) of a whole number x: the decimal with three fraction
\* digits, kept as its count of thousandths
Fixed3(x) == [thousandths |-> x * 1000]

\* "-ss <start> -i <path>": one input of a command line
Input(start, path) == [ss |-> Fixed3(start), path |-> path]

\* Option::unwrap_or
unwrap_or(o, default) == IF o = None THEN default ELSE o[1]

\* f64::min on finite operands
f64_min_mut(a, b) == a
f64_min(a, b) == IF a <= b THEN a ELSE b

has_separate_audio(segment) == segment.audio_source_path # None

\* audio_start_time.unwrap_or(start_time)
audio_start(segment) == unwrap_or(segment.audio_start_time, segment.start_time)

\* audio_end_time.map(|e| e - audio_start).unwrap_or(duration)
audio_duration(segment) ==
    IF segment.audio_end_time = None THEN duration_of(segment)
    ELSE segment.audio_end_time[1] - audio_start(segment)

\* the inputs and "-map" options shared by the three builders
segment_inputs(segment) ==
    IF has_separate_audio(segment)
    THEN <<Input(segment.start_time, segment.source_path),
           Input(audio_start(segment), segment.audio_source_path[1])>>
    ELSE <<Input(segment.start_time, segment.source_path)>>
segment_maps_mut(segment) ==
    IF segment.audio_end_time # None THEN <<"0:v:0", "1:a:0">> ELSE <<>>
segment_maps(segment) ==
    IF has_separate_audio(segment) THEN <<"0:v:0", "1:a:0">> ELSE <<>>

\* export_fast: the stream-copy extraction of one segment
fast_extract_args(segment, output_file_str) ==
    [inputs |-> segment_inputs(segment),
     t |-> IF has_separate_audio(segment)
           THEN Fixed3(f64_min(duration_of(segment), audio_duration(segment)))
           ELSE Fixed3(duration_of(segment)),
     maps |-> segment_maps(segment),
     codec |-> [c |-> "copy"],
     out |-> output_file_str]

\* "-crf" of an encode to outputPath
final_crf(opts) == IF opts.preset = "high" THEN 18 ELSE 23

\* export_with_fades, one segment: the direct trim and encode to outputPath
single_encode_args(segment, opts, out) ==
    [inputs |-> segment_inputs(segment),
     t |-> Fixed3(duration_of(segment)),
     maps |-> segment_maps(segment),
     codec |-> [cv |-> "libx264", preset |-> "medium", crf |-> final_crf(opts),
                ca |-> "aac", ba |-> "192k"],
     out |-> out]

\* export_with_fades, several segments: the re-encode of one segment
multi_encode_args(segment, output_file_str) ==
    [inputs |-> segment_inputs(segment),
     t |-> Fixed3(duration_of(segment)),
     maps |-> segment_maps(segment),
     codec |-> [cv |-> "libx264", preset |-> "fast", crf |-> 18,
                ca |-> "aac", ba |-> "192k", r |-> 30],
     out |-> output_file_str]

\* the lines written to concat_list.txt, one "file '<path>'" per pushed file
concat_list_mut(files) == [k \in 1..Len(files) |-> [file |-> files[Len(files) + 1 - k]]]
concat_list(files) == [k \in 1..Len(files) |-> [file |-> files[k]]]

\* the concat: "-f concat -safe 0 -i <list> -c copy <outputPath>", with what
\* the list file holds when the process is started
concat_args(files, out) ==
    [inputs |-> <<[f |-> "concat", path |-> concat_list_path, lines |-> concat_list(files)]>>,
     codec |-> [c |-> "copy"],
     out |-> out]

\* a spawned process together with its command line
WithArgs(process, args) ==
    [f \in DOMAIN process \cup {"args"} |-> IF f = "args" THEN args ELSE process[f]]

fast_rendering_percent(acc, total) == F64Mul(F64Div(acc, total), 100)

\* one iteration of the fast loop up to the spawn of the extraction
export_fast_segment_spawn ==
    /\ pc = "fast_loop"
    /\ i < Len(segments)
    /\ \E env \in {"ok", "bad_path", "no_spawn"} :
        CASE env = "bad_path" ->
                /\ Return(Err("Invalid temp path", None))
                /\ UNCHANGED <<events, procs>>
          [] env = "no_spawn" ->
                /\ events' = emit_progress(events, "rendering", segment_number(i), total_segments,
                        Some(accumulated_duration), Some(total_duration), None,
                        Some(fast_rendering_percent(accumulated_duration, total_duration)))
                /\ Return(Err("Failed to run ffmpeg", None))
                /\ UNCHANGED procs
          [] OTHER ->
                /\ events' = emit_progress(events, "rendering", segment_number(i), total_segments,
                        Some(accumulated_duration), Some(total_duration), None,
                        Some(fast_rendering_percent(accumulated_duration, total_duration)))
                /\ procs' = Append(procs, WithArgs(Process("extract", Some(i)),
                                fast_extract_args(segments[i + 1], segment_file(i))))
                /\ pc' = "fast_wait"
                /\ UNCHANGED <<temp_dir, temp_files, result>>
    /\ UNCHANGED <<pipeline, segments, output_path, options, output_file, i,
                   accumulated_duration, segment_files, lines_read>>
    /\ UNCHANGED <<pure_vars, jobs_vars, cache_vars, video_vars, late_vars, project_vars>>

\* the extraction exits, with the `return` after the error event left out
export_fast_segment_exit_mut ==
    /\ pc = "fast_wait"
    /\ \E status \in {"ok", "failed"} :
        /\ procs' = Exited(procs, status)
        /\ events' = IF ~success(status)
                     THEN emit_progress(events, "error", segment_number(i), total_segments,
                                        None, Some(total_duration), None, None)
                     ELSE events
        /\ accumulated_duration' = accumulated_duration + duration_of(segments[i + 1])
        /\ segment_files' = Append(segment_files, segment_file(i))
        /\ temp_files' = temp_files \cup {segment_file(i)}
        /\ i' = i + 1
        /\ pc' = "fast_loop"
        /\ UNCHANGED <<temp_dir, result>>
    /\ UNCHANGED <<pipeline, segments, output_path, options, output_file, lines_read>>
    /\ UNCHANGED <<pure_vars, jobs_vars, cache_vars, video_vars, late_vars, project_vars>>

\* the extraction exits: abort on failure, else account for the segment
export_fast_segment_exit ==
    /\ pc = "fast_wait"
    /\ \E status \in {"ok", "failed"} :
        /\ procs' = Exited(procs, status)
        /\ IF ~success(status)
           THEN /\ events' = emit_progress(events, "error", segment_number(i), total_segments,
                        None, Some(total_duration), None, None)
                /\ Return(Err("FFmpeg segment extraction failed for segment", Some(i)))
                /\ UNCHANGED <<i, accumulated_duration, segment_files>>
           ELSE /\ accumulated_duration' = accumulated_duration + duration_of(segments[i + 1])
                /\ segment_files' = Append(segment_files, segment_file(i))
                /\ temp_files' = temp_files \cup {segment_file(i)}
                /\ i' = i + 1
                /\ pc' = "fast_loop"
                /\ UNCHANGED <<events, temp_dir, result>>
    /\ UNCHANGED <<pipeline, segments, output_path, options, output_file, lines_read>>
    /\ UNCHANGED <<pure_vars, jobs_vars, cache_vars, video_vars, late_vars, project_vars>>

\* after the loop: finalizing event, concat list, spawn of the concat
export_fast_finalize ==
    /\ pc = "fast_loop"
    /\ i >= Len(segments)
    /\ events' = emit_progress(events, "finalizing", total_segments, total_segments,
            Some(total_duration), Some(total_duration), None,
            Some(F64(95)))
    /\ \E env \in {"ok", "no_create", "no_write", "bad_path", "no_spawn"} :
        CASE env = "no_create" -> /\ Return(Err("Failed to create concat list", None))
                                  /\ UNCHANGED procs
          [] env = "no_write" -> /\ Return(Err("Failed to write concat list", None))
                                 /\ UNCHANGED procs
          [] env = "bad_path" -> /\ Return(Err("Invalid concat list path", None))
                                 /\ UNCHANGED procs
          [] env = "no_spawn" -> /\ Return(Err("Failed to run ffmpeg concat", None))
                                 /\ UNCHANGED procs
          [] OTHER -> /\ temp_files' = temp_files \cup {concat_list_path}
                      /\ procs' = Append(procs, WithArgs(Process("concat", None),
                                      concat_args(segment_files, output_path)))
                      /\ pc' = "fast_concat_wait"
                      /\ UNCHANGED <<temp_dir, result>>
    /\ UNCHANGED <<pipeline, segments, output_path, options, output_file, i,
                   accumulated_duration, segment_files, lines_read>>
    /\ UNCHANGED <<pure_vars, jobs_vars, cache_vars, video_vars, late_vars, project_vars>>

\* what a process that was given outputPath leaves there when it exits
OutputAfter(status, wrote) ==
    IF status = "ok" THEN "complete" ELSE IF wrote THEN "partial" ELSE "absent"

\* the concat exits
export_fast_concat_exit ==
    /\ pc = "fast_concat_wait"
    /\ \E status \in {"ok", "failed"}, wrote \in BOOLEAN :
        /\ procs' = Exited(procs, status)
        /\ output_file' = OutputAfter(status, wrote)
        /\ IF ~success(status)
           THEN /\ events' = emit_progress(events, "error", total_segments, total_segments,
                        None, Some(total_duration), None, None)
                /\ Return(Err("FFmpeg concat failed", None))
           ELSE /\ events' = emit_progress(events, "complete", total_segments, total_segments,
                        Some(total_duration), Some(total_duration), None, Some(F64(100)))
                /\ Return(Ok(output_path))
    /\ UNCHANGED <<pipeline, segments, output_path, options, i, accumulated_duration,
                   segment_files, lines_read>>
    /\ UNCHANGED <<pure_vars, jobs_vars, cache_vars, video_vars, late_vars, project_vars>>

\* ------------------------------------------------------ export_with_fades
\* A side-channel line of the encoder, by what parse_ffmpeg_progress looks
\* at: whether "time=" occurs, whether a space follows the value, the
\* ':'-separated fields of the value (Some(number), or None when the field
\* does not parse as f64), and the same for "fps=".
ProgressLine(time_marker, time_end, parts, fps_marker, fps_end, fps_field) ==
    [time_marker |-> time_marker, time_end |-> time_end, parts |-> parts,
     fps_marker |-> fps_marker, fps_end |-> fps_end, fps_field |-> fps_field]

\* parts[k].parse().unwrap_or(0.0)
unwrap_or_zero(field) == IF field = None THEN 0 ELSE field[1]

parse_ffmpeg_progress(line) ==
    IF ~line.time_marker THEN None
    ELSE LET time_secs ==
                 IF line.time_end /\ Len(line.parts) = 3
                 THEN Some(unwrap_or_zero(line.parts[1]) * 3600
                           + unwrap_or_zero(line.parts[2]) * 60
                           + unwrap_or_zero(line.parts[3]))
                 ELSE None
             fps == IF line.fps_marker /\ line.fps_end THEN line.fps_field ELSE None
         IN IF time_secs = None THEN None ELSE Some(<<time_secs[1], fps>>)

\* the lines a child is taken to write: diagnostic chatter, a progress line
\* "frame=.. [fps=30 ]time=00:00:0t bitrate=..", and a line ending in the
\* time value
ProgressLines ==
    {ProgressLine(FALSE, FALSE, <<>>, FALSE, FALSE, None)}
        \cup {ProgressLine(TRUE, TRUE, <<Some(0), Some(0), Some(t)>>, f, f, Some(30)) :
                t \in SampleTimes, f \in BOOLEAN}
        \cup {ProgressLine(TRUE, FALSE, <<Some(0), Some(0), Some(MaxSample)>>,
                           FALSE, FALSE, None)}

\* export_with_fades without the `segments.len() == 1` branch
export_with_fades_prepare_mut ==
    /\ pc = "export_with_fades"
    /\ events' = emit_progress(events, "preparing", 0, total_segments, None,
                               Some(total_duration), None, Some(F64(0)))
    /\ pc' = "fades_multi"
    /\ UNCHANGED <<pipeline, segments, output_path, options, procs, temp_dir, temp_files,
                   output_file, i, accumulated_duration, segment_files,
                   lines_read, result>>
    /\ UNCHANGED <<pure_vars, jobs_vars, cache_vars, video_vars, late_vars, project_vars>>

\* export_with_fades, up to the single/multi branch: preparing event
export_with_fades_prepare ==
    /\ pc = "export_with_fades"
    /\ events' = emit_progress(events, "preparing", 0, total_segments, None,
                               Some(total_duration), None, Some(F64(0)))
    /\ pc' = IF Len(segments) = 1 THEN "fades_single" ELSE "fades_multi"
    /\ UNCHANGED <<pipeline, segments, output_path, options, procs, temp_dir, temp_files,
                   output_file, i, accumulated_duration, segment_files,
                   lines_read, result>>
    /\ UNCHANGED <<pure_vars, jobs_vars, cache_vars, video_vars, late_vars, project_vars>>

\* single segment: rendering event and spawn of the direct trim + encode
fades_single_spawn ==
    /\ pc = "fades_single"
    /\ events' = emit_progress(events, "rendering", 1, 1, Some(0),
                               Some(total_duration), None, Some(F64(0)))
    /\ \E spawned \in BOOLEAN :
        IF spawned
        THEN /\ procs' = Append(procs, WithArgs(Process("encode", Some(0)),
                        single_encode_args(segments[1], unwrap_or_default(options),
                                           output_path)))
             /\ pc' = "single_monitor"
             /\ UNCHANGED <<temp_dir, temp_files, result>>
        ELSE /\ Return(Err("Failed to run ffmpeg", None))
             /\ UNCHANGED procs
    /\ lines_read' = 0
    /\ UNCHANGED <<pipeline, segments, output_path, options, output_file, i,
                   accumulated_duration, segment_files>>
    /\ UNCHANGED <<pure_vars, jobs_vars, cache_vars, video_vars, late_vars, project_vars>>

monitor_percent(time, total) == F64Min(F64Mul(F64Div(time, total), 100), 99)

\* monitor_ffmpeg_progress: one line of the child's stderr is read
monitor_ffmpeg_progress ==
    /\ pc = "single_monitor"
    /\ lines_read < MaxLines
    /\ \E line \in ProgressLines :
        LET sample == parse_ffmpeg_progress(line) IN
        events' = IF sample = None THEN events
                  ELSE emit_progress(events, "rendering", 1, 1, Some(sample[1][1]),
                            Some(total_duration), sample[1][2],
                            Some(monitor_percent(sample[1][1], total_duration)))
    /\ lines_read' = lines_read + 1
    /\ UNCHANGED <<pipeline, pc, segments, output_path, options, procs, temp_dir, temp_files,
                   output_file, i, accumulated_duration, segment_files, result>>
    /\ UNCHANGED <<pure_vars, jobs_vars, cache_vars, video_vars, late_vars, project_vars>>

\* stderr reaches its end, child.wait() returns
fades_single_exit ==
    /\ pc = "single_monitor"
    /\ \E status \in {"ok", "failed", "wait_error"}, wrote \in BOOLEAN :
        /\ procs' = Exited(procs, status)
        /\ output_file' = OutputAfter(status, wrote)
        /\ IF status = "wait_error"
           THEN /\ Return(Err("FFmpeg wait failed", None))
                /\ UNCHANGED events
           ELSE IF ~success(status)
           THEN /\ events' = emit_progress(events, "error", 1, 1, None,
                        Some(total_duration), None, None)
                /\ Return(Err("FFmpeg encoding failed", None))
           ELSE /\ events' = emit_progress(events, "complete", 1, 1,
                        Some(total_duration), Some(total_duration), None, Some(F64(100)))
                /\ Return(Ok(output_path))
    /\ UNCHANGED <<pipeline, segments, output_path, options, i, accumulated_duration,
                   segment_files, lines_read>>
    /\ UNCHANGED <<pure_vars, jobs_vars, cache_vars, video_vars, late_vars, project_vars>>

\* several segments: TempDir::new, first rendering event
fades_multi_begin ==
    /\ pc = "fades_multi"
    /\ \E created \in BOOLEAN :
        IF created
        THEN /\ temp_dir' = "exists"
             /\ temp_files' = {}
             /\ events' = emit_progress(events, "rendering", 0, total_segments, Some(0),
                            Some(total_duration), None, Some(F64(0)))
             /\ pc' = "fades_loop"
             /\ result' = result
        ELSE /\ result' = Err("Failed to create temp dir", None)
             /\ pc' = "done"
             /\ UNCHANGED <<temp_dir, temp_files, events>>
    /\ i' = 0
    /\ accumulated_duration' = 0
    /\ segment_files' = <<>>
    /\ UNCHANGED <<pipeline, segments, output_path, options, procs, output_file, lines_read>>
    /\ UNCHANGED <<pure_vars, jobs_vars, cache_vars, video_vars, late_vars, project_vars>>

fades_rendering_percent(acc, total) == F64Mul(F64Div(acc, total), 50)

\* one iteration of the re-encode loop up to the spawn
fades_segment_spawn ==
    /\ pc = "fades_loop"
    /\ i < Len(segments)
    /\ \E env \in {"ok", "bad_path", "no_spawn"} :
        CASE env = "bad_path" ->
                /\ Return(Err("Invalid temp path", None))
                /\ UNCHANGED <<events, procs>>
          [] env = "no_spawn" ->
                /\ events' = emit_progress(events, "rendering", segment_number(i), total_segments,
                        Some(accumulated_duration), Some(total_duration), None,
                        Some(fades_rendering_percent(accumulated_duration, total_duration)))
                /\ Return(Err("Failed to run ffmpeg", None))
                /\ UNCHANGED procs
          [] OTHER ->
                /\ events' = emit_progress(events, "rendering", segment_number(i), total_segments,
                        Some(accumulated_duration), Some(total_duration), None,
                        Some(fades_rendering_percent(accumulated_duration, total_duration)))
                /\ procs' = Append(procs, WithArgs(Process("encode", Some(i)),
                                multi_encode_args(segments[i + 1], segment_file(i))))
                /\ pc' = "fades_wait"
                /\ UNCHANGED <<temp_dir, temp_files, result>>
    /\ UNCHANGED <<pipeline, segments, output_path, options, output_file, i,
                   accumulated_duration, segment_files, lines_read>>
    /\ UNCHANGED <<pure_vars, jobs_vars, cache_vars, video_vars, late_vars, project_vars>>

\* the re-encode of segment i exits
fades_segment_exit ==
    /\ pc = "fades_wait"
    /\ \E status \in {"ok", "failed"} :
        /\ procs' = Exited(procs, status)
        /\ IF ~success(status)
           THEN /\ events' = emit_progress(events, "error", segment_number(i), total_segments,
                        None, Some(total_duration), None, None)
                /\ Return(Err("FFmpeg segment encoding failed for segment", Some(i)))
                /\ UNCHANGED <<i, accumulated_duration, segment_files>>
           ELSE /\ accumulated_duration' = accumulated_duration + duration_of(segments[i + 1])
                /\ segment_files' = Append(segment_files, segment_file(i))
                /\ temp_files' = temp_files \cup {segment_file(i)}
                /\ i' = i + 1
                /\ pc' = "fades_loop"
                /\ UNCHANGED <<events, temp_dir, result>>
    /\ UNCHANGED <<pipeline, segments, output_path, options, output_file, lines_read>>
    /\ UNCHANGED <<pure_vars, jobs_vars, cache_vars, video_vars, late_vars, project_vars>>

\* ------------------------------------------------------------ filter graph
\* segment_durations: Vec<f64> of end_time - start_time
segment_durations(segs) == [k \in 1..Len(segs) |-> duration_of(segs[k])]

\* the decimal digits of a natural number, and format!("{:02}", k)
RECURSIVE Decimal(_)
Decimal(k) == IF k < 10 THEN <<k>> ELSE Append(Decimal(k \div 10), k % 10)
Pad02(k) == IF k < 10 THEN <<0, k>> ELSE Decimal(k)

\* pad labels: "[k:v]" / "[k:a]" of input k, "[vNN]" / "[aNN]" between
\* stages, "[vout]" / "[aout]" at the end of a chain
InputPad(k, track) == [kind |-> "input", track |-> track, num |-> <<k>>]
ChainPad(digits, track) == [kind |-> "pad", track |-> track, num |-> digits]
OutPad(track) == [kind |-> "out", track |-> track, num |-> <<>>]

\* one "[in1][in2]xfade=...:offset=..[out]" or "[in1][in2]acrossfade=..[out]"
FilterStage(op, in1, in2, fade, offset, out) ==
    [op |-> op, in1 |-> in1, in2 |-> in2, duration |-> fade, offset |-> offset,
     out |-> out]

\* offset += segment_durations[i - 1] - fade_duration, for loop index i
next_offset_mut(offset, durs, k, fade) == offset + durs[k]
next_offset(offset, durs, k, fade) == offset + durs[k] - fade

prev_pad(k, track) == IF k = 2 THEN ChainPad(<<0, 1>>, track) ELSE ChainPad(Pad02(k - 1), track)
next_pad_mut(k, n, track) == ChainPad(Pad02(k), track)
next_pad(k, n, track) == IF k = n - 1 THEN OutPad(track) ELSE ChainPad(Pad02(k), track)

\* the loop `for i in 2..n`, from index k with the offset reached so far
RECURSIVE chain_stages(_, _, _, _, _, _, _)
chain_stages(durs, fade, n, k, offset, vf, af) ==
    IF k >= n THEN [video |-> vf, audio |-> af]
    ELSE LET off == next_offset(offset, durs, k, fade) IN
         chain_stages(durs, fade, n, k + 1, off,
            Append(vf, FilterStage("xfade", prev_pad(k, "v"), InputPad(k, "v"),
                                   fade, Some(off), next_pad(k, n, "v"))),
            Append(af, FilterStage("acrossfade", prev_pad(k, "a"), InputPad(k, "a"),
                                   fade, None, next_pad(k, n, "a"))))

\* video_filter and audio_filter for n intermediate files
filter_complex(durs, fade, n) ==
    LET offset == durs[1] - fade IN
    IF n = 2
    THEN [video |-> <<FilterStage("xfade", InputPad(0, "v"), InputPad(1, "v"),
                                  fade, Some(offset), OutPad("v"))>>,
          audio |-> <<FilterStage("acrossfade", InputPad(0, "a"), InputPad(1, "a"),
                                  fade, None, OutPad("a"))>>]
    ELSE chain_stages(durs, fade, n, 2, offset,
            <<FilterStage("xfade", InputPad(0, "v"), InputPad(1, "v"),
                          fade, Some(offset), ChainPad(<<0, 1>>, "v"))>>,
            <<FilterStage("acrossfade", InputPad(0, "a"), InputPad(1, "a"),
                          fade, None, ChainPad(<<0, 1>>, "a"))>>)

\* the assembly process with the filter graph it is given
XfadeProcess(filter) ==
    [kind |-> "xfade", seg |-> None, status |-> "running", filter |-> filter]

\* the assembly: one "-i" per intermediate file, the mapped pads, the encode
xfade_args(files, opts, out) ==
    [inputs |-> [k \in 1..Len(files) |-> [path |-> files[k]]],
     maps |-> <<OutPad("v"), OutPad("a")>>,
     codec |-> [cv |-> "libx264", preset |-> "medium", crf |-> final_crf(opts),
                ca |-> "aac", ba |-> "192k"],
     out |-> out]

\* after the loop: finalizing event, spawn of the xfade assembly
fades_finalize ==
    /\ pc = "fades_loop"
    /\ i >= Len(segments)
    /\ events' = emit_progress(events, "finalizing", total_segments, total_segments,
            Some(total_duration), Some(total_duration), None, Some(F64(50)))
    /\ \E spawned \in BOOLEAN :
        IF spawned
        THEN /\ procs' = Append(procs, WithArgs(
                    XfadeProcess(
                        filter_complex(segment_durations(segments),
                                       unwrap_or_default(options).fade_duration,
                                       Len(segment_files))),
                    xfade_args(segment_files, unwrap_or_default(options), output_path)))
             /\ pc' = "fades_final_monitor"
             /\ UNCHANGED <<temp_dir, temp_files, result>>
        ELSE /\ Return(Err("Failed to run ffmpeg xfade", None))
             /\ UNCHANGED procs
    /\ lines_read' = 0
    /\ UNCHANGED <<pipeline, segments, output_path, options, output_file, i,
                   accumulated_duration, segment_files>>
    /\ UNCHANGED <<pure_vars, jobs_vars, cache_vars, video_vars, late_vars, project_vars>>

final_percent(time, total) == F64Min(F64Add(50, F64Mul(F64Div(time, total), 50)), 99)

\* one line of the assembly's stderr is read
fades_final_line ==
    /\ pc = "fades_final_monitor"
    /\ lines_read < MaxLines
    /\ \E line \in ProgressLines :
        LET sample == parse_ffmpeg_progress(line) IN
        events' = IF sample = None THEN events
                  ELSE emit_progress(events, "finalizing", total_segments, total_segments,
                            Some(sample[1][1]), Some(total_duration), sample[1][2],
                            Some(final_percent(sample[1][1], total_duration)))
    /\ lines_read' = lines_read + 1
    /\ UNCHANGED <<pipeline, pc, segments, output_path, options, procs, temp_dir, temp_files,
                   output_file, i, accumulated_duration, segment_files, result>>
    /\ UNCHANGED <<pure_vars, jobs_vars, cache_vars, video_vars, late_vars, project_vars>>

\* stderr reaches its end, child.wait() returns
fades_final_exit ==
    /\ pc = "fades_final_monitor"
    /\ \E status \in {"ok", "failed", "wait_error"}, wrote \in BOOLEAN :
        /\ procs' = Exited(procs, status)
        /\ output_file' = OutputAfter(status, wrote)
        /\ IF status = "wait_error"
           THEN /\ Return(Err("FFmpeg wait failed", None))
                /\ UNCHANGED events
           ELSE IF ~success(status)
           THEN /\ events' = emit_progress(events, "error", total_segments, total_segments,
                        None, Some(total_duration), None, None)
                /\ Return(Err("FFmpeg xfade failed", None))
           ELSE /\ events' = emit_progress(events, "complete", total_segments, total_segments,
                        Some(total_duration), Some(total_duration), None, Some(F64(100)))
                /\ Return(Ok(output_path))
    /\ UNCHANGED <<pipeline, segments, output_path, options, i, accumulated_duration,
                   segment_files, lines_read>>
    /\ UNCHANGED <<pure_vars, jobs_vars, cache_vars, video_vars, late_vars, project_vars>>

Next ==
    \/ export_video
    \/ export_fast_prepare
    \/ export_fast_segment_spawn
    \/ export_fast_segment_exit
    \/ export_fast_finalize
    \/ export_fast_concat_exit
    \/ export_with_fades_prepare
    \/ fades_single_spawn
    \/ monitor_ffmpeg_progress
    \/ fades_single_exit
    \/ fades_multi_begin
    \/ fades_segment_spawn
    \/ fades_segment_exit
    \/ fades_finalize
    \/ fades_final_line
    \/ fades_final_exit

Spec == Init /\ [][Next]_vars

\* --------------------------------------------- the transition plan alone
MaxChain == 4
\* durations in a unit of one's choosing; 10 stands for 5 s in half seconds
ChainDurations == (1..MaxDur) \cup {10}

RECURSIVE SeqsOfLen(_, _)
SeqsOfLen(S, k) ==
    IF k = 0 THEN {<<>>} ELSE {Append(q, x) : q \in SeqsOfLen(S, k - 1), x \in S}

\* chains long enough for two-digit pad numbers, of equal segments
LongChain == 12
PlanInputs ==
    {[segments |-> segs, fade_duration |-> f] :
        segs \in UNION {SeqsOfLen({ExportSegment(0, e) : e \in ChainDurations}, k) :
                            k \in 2..MaxChain}
                    \cup {[k \in 1..n |-> ExportSegment(0, MaxDur)] : n \in 2..LongChain},
        f \in FadeValues}

PlanInit == fn_arg \in PlanInputs /\ fn_ret = None
    /\ ExportParked /\ JobsParked /\ CacheParked /\ VideoParked /\ LateParked /\ ProjectsParked
\* what export_with_fades computes from segments and opts.fade_duration
plan_transitions ==
    /\ fn_ret = None
    /\ fn_ret' = Some([total_duration |->
                            fades_total_duration(fn_arg.segments, fn_arg.fade_duration),
                       filter |-> filter_complex(segment_durations(fn_arg.segments),
                                        fn_arg.fade_duration, Len(fn_arg.segments)),
                       maps |-> xfade_args([k \in 1..Len(fn_arg.segments) |-> segment_file(k - 1)],
                                    ExportOptions("standard", fn_arg.fade_duration),
                                    "out.mp4").maps])
    /\ UNCHANGED <<fn_arg, export_vars, jobs_vars, cache_vars, video_vars, late_vars, project_vars>>

PlanNext == plan_transitions

SpecPlan == PlanInit /\ [][PlanNext]_vars

\* ----------------------------------------------- the progress parser alone
MaxParts == 3
MaxField == 2
\* a ':'-separated field of the time value: malformed, or a number
TimeFields == {None} \cup {Some(v) : v \in 1..MaxField}

ParseInputs ==
    LET time_side ==
            {[time_marker |-> FALSE, time_end |-> FALSE, parts |-> <<>>]}
                \cup {[time_marker |-> TRUE, time_end |-> e, parts |-> ps] :
                        e \in BOOLEAN,
                        ps \in UNION {SeqsOfLen(TimeFields, k) : k \in 1..MaxParts}}
        fps_side ==
            {[fps_marker |-> FALSE, fps_end |-> FALSE, fps_field |-> None]}
                \cup {[fps_marker |-> TRUE, fps_end |-> e, fps_field |-> f] :
                        e \in BOOLEAN, f \in {None, Some(30)}}
    IN {ProgressLine(t.time_marker, t.time_end, t.parts,
                     f.fps_marker, f.fps_end, f.fps_field) :
            t \in time_side, f \in fps_side}

ParseInit == fn_arg \in ParseInputs /\ fn_ret = None
    /\ ExportParked /\ JobsParked /\ CacheParked /\ VideoParked /\ LateParked /\ ProjectsParked
\* one call of parse_ffmpeg_progress
parse_line ==
    /\ fn_ret = None
    /\ fn_ret' = Some(parse_ffmpeg_progress(fn_arg))
    /\ UNCHANGED <<fn_arg, export_vars, jobs_vars, cache_vars, video_vars, late_vars, project_vars>>

ParseNext == parse_line

SpecParse == ParseInit /\ [][ParseNext]_vars

\* ------------------------------------------------ the command lines alone
MaxTime == 3
Times == 0..MaxTime
AudioPaths == {"voice.wav"}
CodePaths == {"fast", "single", "multi"}

\* an ExportSegment with its optional audio fields as given
AudioSegment(s, e, path, a_start, a_end) ==
    [ExportSegment(s, e) EXCEPT !.audio_source_path = path,
                                !.audio_start_time = a_start,
                                !.audio_end_time = a_end]

ArgsInputs ==
    {[segment |-> AudioSegment(s, e, path, a_start, a_end), code_path |-> c] :
        s \in Times, e \in Times,
        path \in {None} \cup {Some(a) : a \in AudioPaths},
        a_start \in {None} \cup {Some(t) : t \in Times},
        a_end \in {None} \cup {Some(t) : t \in Times},
        c \in CodePaths}

ArgsInit == fn_arg \in ArgsInputs /\ fn_ret = None
    /\ ExportParked /\ JobsParked /\ CacheParked /\ VideoParked /\ LateParked /\ ProjectsParked
\* the command line one of the three code paths builds for a segment
command_for(segment, code_path) ==
    CASE code_path = "fast" -> fast_extract_args(segment, segment_file(0))
      [] code_path = "single" ->
            single_encode_args(segment, ExportOptions("standard", 0), "out.mp4")
      [] OTHER -> multi_encode_args(segment, segment_file(0))

build_command ==
    /\ fn_ret = None
    /\ fn_ret' = Some(command_for(fn_arg.segment, fn_arg.code_path))
    /\ UNCHANGED <<fn_arg, export_vars, jobs_vars, cache_vars, video_vars, late_vars, project_vars>>

ArgsNext == build_command

SpecArgs == ArgsInit /\ [][ArgsNext]_vars

\* ------------------------------------------- a monitored encoder, line by line
\* What a monitored child does is fixed when it is spawned: the lines it
\* writes to its stderr pipe and how it exits.  The job reads the pipe line
\* by line until end of file and then waits for the child.
ChildRuns ==
    {[stderr |-> lines, exit |-> status, wrote |-> w] :
        lines \in SeqsUpTo(ProgressLines, MaxLines),
        status \in {"ok", "failed", "wait_error"},
        w \in BOOLEAN}

\* a single-segment transition job right after the spawn of its encode
SingleSpawned ==
    /\ pc = "single_monitor"
    /\ segments = <<ExportSegment(0, MaxDur)>>
    /\ output_path = "out.mp4"
    /\ options = Some(ExportOptions("standard", 0))
    /\ pipeline = "fades"
    /\ events = emit_progress(
            emit_progress(<<>>, "preparing", 0, 1, None, Some(MaxDur), None, Some(F64(0))),
            "rendering", 1, 1, Some(0), Some(MaxDur), None, Some(F64(0)))
    /\ procs = <<WithArgs(Process("encode", Some(0)),
                    single_encode_args(ExportSegment(0, MaxDur),
                                       ExportOptions("standard", 0), "out.mp4"))>>
    /\ temp_dir = "none"
    /\ temp_files = {}
    /\ output_file = "absent"
    /\ i = 0
    /\ accumulated_duration = 0
    /\ segment_files = <<>>
    /\ lines_read = 0
    /\ result = NoResult

\* a two-segment transition job right after the spawn of its assembly
MultiSpawned ==
    LET segs == <<ExportSegment(0, 1), ExportSegment(0, 1)>>
        opts == ExportOptions("standard", 0)
        files == <<segment_file(0), segment_file(1)>>
        encoded(k) == [WithArgs(Process("encode", Some(k)),
                            multi_encode_args(segs[k + 1], segment_file(k)))
                        EXCEPT !.status = "ok"]
    IN
    /\ pc = "fades_final_monitor"
    /\ segments = segs
    /\ output_path = "out.mp4"
    /\ options = Some(opts)
    /\ pipeline = "fades"
    /\ events = <<
        ExportProgressEvent("preparing", 0, 2, None, Some(2), None, Some(F64(0))),
        ExportProgressEvent("rendering", 0, 2, Some(0), Some(2), None, Some(F64(0))),
        ExportProgressEvent("rendering", 1, 2, Some(0), Some(2), None,
                            Some(fades_rendering_percent(0, 2))),
        ExportProgressEvent("rendering", 2, 2, Some(1), Some(2), None,
                            Some(fades_rendering_percent(1, 2))),
        ExportProgressEvent("finalizing", 2, 2, Some(2), Some(2), None, Some(F64(50)))>>
    /\ procs = <<encoded(0), encoded(1),
                 WithArgs(XfadeProcess(filter_complex(segment_durations(segs), 0, 2)),
                          xfade_args(files, opts, "out.mp4"))>>
    /\ temp_dir = "exists"
    /\ temp_files = {segment_file(0), segment_file(1)}
    /\ output_file = "absent"
    /\ i = 2
    /\ accumulated_duration = 2
    /\ segment_files = files
    /\ lines_read = 0
    /\ result = NoResult

MonitorInit ==
    /\ fn_arg \in ChildRuns
    /\ fn_ret = None
    /\ (SingleSpawned \/ MultiSpawned)
    /\ JobsParked /\ CacheParked /\ VideoParked /\ LateParked /\ ProjectsParked

\* `for line in reader.lines()` is over: the pipe is at end of file
at_eof_mut(read, written) == TRUE
at_eof(read, written) == read = Len(written)

\* the next line of the pipe is read, and reported if it parses
monitor_read_line ==
    /\ pc \in {"single_monitor", "fades_final_monitor"}
    /\ lines_read < Len(fn_arg.stderr)
    /\ LET sample == parse_ffmpeg_progress(fn_arg.stderr[lines_read + 1]) IN
        events' =
            IF sample = None THEN events
            ELSE IF pc = "single_monitor"
            THEN emit_progress(events, "rendering", 1, 1, Some(sample[1][1]),
                    Some(total_duration), sample[1][2],
                    Some(monitor_percent(sample[1][1], total_duration)))
            ELSE emit_progress(events, "finalizing", total_segments, total_segments,
                    Some(sample[1][1]), Some(total_duration), sample[1][2],
                    Some(final_percent(sample[1][1], total_duration)))
    /\ lines_read' = lines_read + 1
    /\ UNCHANGED <<pipeline, pc, segments, output_path, options, procs, temp_dir, temp_files,
                   output_file, i, accumulated_duration, segment_files, result>>
    /\ UNCHANGED <<pure_vars, jobs_vars, cache_vars, video_vars, late_vars, project_vars>>

\* end of file on the pipe, then child.wait() and the terminal event
monitor_wait ==
    /\ pc \in {"single_monitor", "fades_final_monitor"}
    /\ at_eof(lines_read, fn_arg.stderr)
    /\ procs' = Exited(procs, fn_arg.exit)
    /\ output_file' = OutputAfter(fn_arg.exit, fn_arg.wrote)
    /\ IF fn_arg.exit = "wait_error"
       THEN /\ Return(Err("FFmpeg wait failed", None))
            /\ UNCHANGED events
       ELSE IF ~success(fn_arg.exit)
       THEN /\ events' = emit_progress(events, "error", total_segments, total_segments,
                    None, Some(total_duration), None, None)
            /\ Return(Err(IF pc = "single_monitor" THEN "FFmpeg encoding failed"
                          ELSE "FFmpeg xfade failed", None))
       ELSE /\ events' = emit_progress(events, "complete", total_segments, total_segments,
                    Some(total_duration), Some(total_duration), None, Some(F64(100)))
            /\ Return(Ok(output_path))
    /\ UNCHANGED <<pipeline, segments, output_path, options, i, accumulated_duration,
                   segment_files, lines_read>>
    /\ UNCHANGED <<pure_vars, jobs_vars, cache_vars, video_vars, late_vars, project_vars>>

MonitorNext == monitor_read_line \/ monitor_wait

SpecMonitor == MonitorInit /\ [][MonitorNext]_vars

\* ------------------------------------------- concurrent export_video calls
\* export_video is an async command: every invocation is a task of its own
\* on the runtime's worker threads, and the invocations share nothing but the
\* "export-progress" channel.  Each invocation below is a fast-mode job (no
\* options) whose scratch directory and spawns succeed; `oracle` fixes at
\* invocation what each of its processes will exit with, so that two
\* invocations can be put in the same environment.
MaxJobSegs == 1
\* two invocations: the least that can overlap, and the two copies compared
JobIds == {1, 2}
ExitStatuses == {"ok", "failed"}

IdleJob ==
    [pc |-> "idle", n |-> 0, oracle |-> <<>>, i |-> 0, delivered |-> <<>>,
     procs |-> <<>>, files |-> {}, result |-> NoResult]

JobsInit ==
    /\ jobs = [j \in JobIds |-> IdleJob]
    /\ channel = <<>>
    /\ ExportParked /\ PureParked /\ CacheParked /\ VideoParked /\ LateParked /\ ProjectsParked

\* `let _ = app.emit(..)`: whether the caller goes on after an emit with
\* the given outcome
emit_discarded_mut(ok) == ok
emit_discarded(ok) == TRUE

\* emit_progress by invocation j: app.emit succeeds or fails
job_emit(j, phase, ok) ==
    /\ channel' = IF ok THEN Append(channel, [job |-> j, phase |-> phase]) ELSE channel

\* the job after emit_progress, when the code after it is `then`
after_emit(job, ok, then) ==
    IF emit_discarded(ok)
    THEN [then EXCEPT !.delivered = Append(job.delivered, ok)]
    ELSE [job EXCEPT !.delivered = Append(job.delivered, ok),
                     !.pc = "returned",
                     !.result = Err("Failed to emit progress", None)]

\* export_video is invoked: empty check, export_fast is entered
job_invoke(j) ==
    /\ jobs[j].pc = "idle"
    /\ \E n \in 0..MaxJobSegs : \E oracle \in SeqsOfLen(ExitStatuses, n + 1) :
        /\ jobs' = [jobs EXCEPT ![j] =
                IF n = 0
                THEN [@ EXCEPT !.n = n, !.oracle = oracle, !.pc = "returned",
                               !.result = Err("No segments to export", None)]
                ELSE [@ EXCEPT !.n = n, !.oracle = oracle, !.pc = "prepare"]]
    /\ UNCHANGED <<channel, export_vars, pure_vars, cache_vars, video_vars, late_vars, project_vars>>

\* export_fast up to the loop
job_prepare(j) ==
    /\ jobs[j].pc = "prepare"
    /\ \E ok \in BOOLEAN :
        /\ job_emit(j, "preparing", ok)
        /\ jobs' = [jobs EXCEPT ![j] =
                after_emit(@, ok, [@ EXCEPT !.pc = "loop", !.i = 0])]
    /\ UNCHANGED <<export_vars, pure_vars, cache_vars, video_vars, late_vars, project_vars>>

\* one loop iteration up to the spawn
job_segment_spawn(j) ==
    /\ jobs[j].pc = "loop"
    /\ jobs[j].i < jobs[j].n
    /\ \E ok \in BOOLEAN :
        /\ job_emit(j, "rendering", ok)
        /\ jobs' = [jobs EXCEPT ![j] =
                after_emit(@, ok,
                    [@ EXCEPT !.pc = "wait",
                              !.procs = Append(@, Process("extract", Some(jobs[j].i)))])]
    /\ UNCHANGED <<export_vars, pure_vars, cache_vars, video_vars, late_vars, project_vars>>

\* the extraction exits
job_segment_exit(j) ==
    /\ jobs[j].pc = "wait"
    /\ LET status == jobs[j].oracle[jobs[j].i + 1] IN
        IF ~success(status)
        THEN \E ok \in BOOLEAN :
                /\ job_emit(j, "error", ok)
                /\ jobs' = [jobs EXCEPT ![j] =
                        after_emit(@, ok,
                            [@ EXCEPT !.procs = Exited(@, status),
                                      !.pc = "returned",
                                      !.result = Err("FFmpeg segment extraction failed for segment",
                                                     Some(jobs[j].i))])]
        ELSE /\ jobs' = [jobs EXCEPT ![j] =
                        [@ EXCEPT !.procs = Exited(@, status),
                                  !.files = @ \cup {segment_file(jobs[j].i)},
                                  !.i = @ + 1,
                                  !.pc = "loop"]]
             /\ UNCHANGED channel
    /\ UNCHANGED <<export_vars, pure_vars, cache_vars, video_vars, late_vars, project_vars>>

\* after the loop, up to the spawn of the concat
job_finalize(j) ==
    /\ jobs[j].pc = "loop"
    /\ jobs[j].i >= jobs[j].n
    /\ \E ok \in BOOLEAN :
        /\ job_emit(j, "finalizing", ok)
        /\ jobs' = [jobs EXCEPT ![j] =
                after_emit(@, ok,
                    [@ EXCEPT !.pc = "concat_wait",
                              !.files = @ \cup {concat_list_path},
                              !.procs = Append(@, Process("concat", None))])]
    /\ UNCHANGED <<export_vars, pure_vars, cache_vars, video_vars, late_vars, project_vars>>

\* the concat exits
job_concat_exit(j) ==
    /\ jobs[j].pc = "concat_wait"
    /\ LET status == jobs[j].oracle[jobs[j].n + 1] IN
       \E ok \in BOOLEAN :
        /\ job_emit(j, IF success(status) THEN "complete" ELSE "error", ok)
        /\ jobs' = [jobs EXCEPT ![j] =
                after_emit(@, ok,
                    IF success(status)
                    THEN [@ EXCEPT !.procs = Exited(@, status),
                                   !.files = @ \cup {<<"output", 0>>},
                                   !.pc = "returned",
                                   !.result = Ok("out.mp4")]
                    ELSE [@ EXCEPT !.procs = Exited(@, status),
                                   !.pc = "returned",
                                   !.result = Err("FFmpeg concat failed", None)])]
    /\ UNCHANGED <<export_vars, pure_vars, cache_vars, video_vars, late_vars, project_vars>>

JobsNext ==
    \E j \in JobIds :
        \/ job_invoke(j)
        \/ job_prepare(j)
        \/ job_segment_spawn(j)
        \/ job_segment_exit(j)
        \/ job_finalize(j)
        \/ job_concat_exit(j)

SpecJobs == JobsInit /\ [][JobsNext]_vars

\* ---------------------------------------------------------------- CacheDb
\* The cache table, one row per (cid, data_type), behind Mutex<Connection>.
\* A row is its data_json; created_at / updated_at are never read back.
MaxCalls == 2
Callers == {1, 2}
CacheKeys == {<<"c1", "transcript">>, <<"c1", "frames">>}
CacheData == {"x", "y"}

\* WHERE cid = ?1 AND data_type = ?2, and the PRIMARY KEY (cid, data_type)
same_key_mut(row_key, cid, data_type) == row_key[1] = cid
same_key(row_key, cid, data_type) == row_key = <<cid, data_type>>

IdleCall ==
    [pc |-> "idle", op |-> "none", cid |-> "", data_type |-> "", data |-> "",
     ret |-> NoResult, done |-> 0]

CacheInit ==
    /\ db = [k \in CacheKeys |-> None]
    /\ mutex = 0
    /\ calls = [t \in Callers |-> IdleCall]
    /\ cache_hist = [latest |-> [k \in CacheKeys |-> {None}],
                     allowed |-> [t \in Callers |-> {}],
                     overlapped |-> [t \in Callers |-> {}]]
    /\ ExportParked /\ PureParked /\ JobsParked /\ VideoParked /\ LateParked /\ ProjectsParked

KeyOf(call) == <<call.cid, call.data_type>>
PendingSets(key, but) ==
    {u \in Callers \ {but} :
        calls[u].pc # "idle" /\ calls[u].op = "set" /\ KeyOf(calls[u]) = key}

\* the get_cached command is invoked by caller t
get_cached_call(t) ==
    /\ calls[t].pc = "idle"
    /\ calls[t].done < MaxCalls
    /\ \E key \in CacheKeys :
        /\ calls' = [calls EXCEPT ![t] =
                [@ EXCEPT !.pc = "lock", !.op = "get", !.cid = key[1],
                          !.data_type = key[2], !.data = "", !.ret = NoResult]]
        /\ cache_hist' = [cache_hist EXCEPT
                !.allowed[t] = cache_hist.latest[key]
                    \cup {Some(calls[u].data) : u \in PendingSets(key, t)}]
    /\ UNCHANGED <<db, mutex, export_vars, pure_vars, jobs_vars, video_vars, late_vars, project_vars>>

\* the set_cached command is invoked by caller t
set_cached_call(t) ==
    /\ calls[t].pc = "idle"
    /\ calls[t].done < MaxCalls
    /\ \E key \in CacheKeys, data \in CacheData :
        /\ calls' = [calls EXCEPT ![t] =
                [@ EXCEPT !.pc = "lock", !.op = "set", !.cid = key[1],
                          !.data_type = key[2], !.data = data, !.ret = NoResult]]
        /\ cache_hist' = [cache_hist EXCEPT
                !.overlapped[t] = {},
                !.allowed = [u \in Callers |->
                    IF u # t /\ calls[u].pc # "idle" /\ calls[u].op = "get"
                            /\ KeyOf(calls[u]) = key
                    THEN @[u] \cup {Some(data)} ELSE @[u]]]
    /\ UNCHANGED <<db, mutex, export_vars, pure_vars, jobs_vars, video_vars, late_vars, project_vars>>

\* self.conn.lock() returns the guard
conn_lock(t) ==
    /\ calls[t].pc = "lock"
    /\ mutex = 0
    /\ mutex' = t
    /\ calls' = [calls EXCEPT ![t].pc = "locked"]
    /\ UNCHANGED <<db, cache_hist, export_vars, pure_vars, jobs_vars, video_vars, late_vars, project_vars>>

\* CacheDb::get_cached under the lock; the guard is dropped on the way out
get_cached ==
    \E t \in Callers :
    /\ calls[t].pc = "locked"
    /\ calls[t].op = "get"
    /\ mutex = t
    /\ \E sqlite \in {"ok", "error"} :
        LET rows == {k \in CacheKeys :
                        same_key(k, calls[t].cid, calls[t].data_type) /\ db[k] # None}
            ret == IF sqlite = "error" THEN Err("Query error", None)
                   ELSE IF rows = {} THEN Ok(None)
                   ELSE Ok(db[CHOOSE k \in rows : TRUE])
        IN calls' = [calls EXCEPT ![t] = [@ EXCEPT !.pc = "return", !.ret = ret]]
    /\ mutex' = 0
    /\ UNCHANGED <<db, cache_hist, export_vars, pure_vars, jobs_vars, video_vars, late_vars, project_vars>>

\* CacheDb::set_cached under the lock: INSERT OR REPLACE, guard dropped
set_cached ==
    \E t \in Callers :
    /\ calls[t].pc = "locked"
    /\ calls[t].op = "set"
    /\ mutex = t
    /\ \E sqlite \in {"ok", "error"} :
        IF sqlite = "error"
        THEN /\ calls' = [calls EXCEPT ![t] =
                    [@ EXCEPT !.pc = "return", !.ret = Err("Insert error", None)]]
             /\ db' = db
        ELSE /\ calls' = [calls EXCEPT ![t] =
                    [@ EXCEPT !.pc = "return",
                              !.ret = Ok(None)]]
             /\ db' = [k \in CacheKeys |->
                        IF same_key(k, calls[t].cid, calls[t].data_type)
                        THEN Some(calls[t].data) ELSE db[k]]
    /\ mutex' = 0
    /\ UNCHANGED <<cache_hist, export_vars, pure_vars, jobs_vars, video_vars, late_vars, project_vars>>

\* the result reaches the caller; a completed set becomes the latest value
\* of its key, together with the sets that overlapped it and may be ordered
\* after it
command_return(t) ==
    /\ calls[t].pc = "return"
    /\ calls' = [calls EXCEPT ![t] = [@ EXCEPT !.pc = "idle", !.done = @ + 1]]
    /\ cache_hist' =
        IF calls[t].op = "set" /\ calls[t].ret.tag = "Ok"
        THEN LET key == KeyOf(calls[t]) IN
             [cache_hist EXCEPT
                !.latest[key] = {Some(calls[t].data)}
                    \cup (cache_hist.overlapped[t] \cap cache_hist.latest[key]),
                !.overlapped = [u \in Callers |->
                    IF u \in PendingSets(key, t)
                    THEN @[u] \cup {Some(calls[t].data)} ELSE @[u]]]
        ELSE cache_hist
    /\ UNCHANGED <<db, mutex, export_vars, pure_vars, jobs_vars, video_vars, late_vars, project_vars>>

CacheNext ==
    \/ \E t \in Callers : get_cached_call(t)
    \/ \E t \in Callers : set_cached_call(t)
    \/ \E t \in Callers : conn_lock(t)
    \/ get_cached
    \/ set_cached
    \/ \E t \in Callers : command_return(t)

SpecCache == CacheInit /\ [][CacheNext]_vars

\* ----------------------------------------------------------- video server
\* get_video_url registers a path under the first 16 hex digits of its
\* SHA-256 digest; serve_video looks the id of a request up.  The registry is
\* a HashMap behind a tokio RwLock, taken for the insert and for the lookup.
MaxVideoCalls == 2
VideoTasks == {1, 2}
VideoPaths == {"a.mp4", "b.mp4"}
\* ids are 64 bits wide while paths are unbounded: the digest prefix is some
\* function from paths to ids, one to one or not
VideoIds == {"id1", "id2"}

\* format!("http://127.0.0.1:{}/video/{}", port.0, video_id)
VideoUrl(video_id) == [host |-> "127.0.0.1", route |-> "video", id |-> video_id]

IdleVideoTask ==
    [pc |-> "idle", op |-> "none", path |-> "", id |-> "", found |-> None,
     response |-> None, known |-> {}, allowed |-> {}, changed |-> FALSE, done |-> 0]

VideoInit ==
    /\ videos = [id \in VideoIds |-> None]
    /\ digest16 \in [VideoPaths -> VideoIds]
    /\ video_tasks = [t \in VideoTasks |-> IdleVideoTask]
    /\ video_hist = [returned |-> {}, inserted |-> {}]
    /\ ExportParked /\ PureParked /\ JobsParked /\ CacheParked /\ LateParked /\ ProjectsParked

\* get_video_url is invoked with a path; the id is computed
get_video_url_call(t) ==
    /\ video_tasks[t].pc = "idle"
    /\ video_tasks[t].done < MaxVideoCalls
    /\ \E path \in VideoPaths :
        video_tasks' = [video_tasks EXCEPT ![t] =
            [IdleVideoTask EXCEPT !.pc = "write", !.op = "register", !.path = path,
                                  !.id = digest16[path],
                                  !.known = video_hist.returned,
                                  !.done = video_tasks[t].done]]
    /\ UNCHANGED <<videos, digest16, video_hist>>
    /\ UNCHANGED <<export_vars, pure_vars, jobs_vars, cache_vars, late_vars, project_vars>>

\* videos.write().await; videos.insert(video_id, path)
insert(registry, video_id, path) == [registry EXCEPT ![video_id] = Some(path)]

get_video_url_insert(t) ==
    /\ video_tasks[t].pc = "write"
    /\ videos' = insert(videos, video_tasks[t].id, video_tasks[t].path)
    /\ video_tasks' = [u \in VideoTasks |->
            IF u = t
            THEN [video_tasks[u] EXCEPT !.pc = "return", !.changed = (videos' # videos)]
            ELSE IF video_tasks[u].pc = "lookup" /\ video_tasks[u].id = video_tasks[t].id
            THEN [video_tasks[u] EXCEPT !.allowed = @ \cup {Some(video_tasks[t].path)}]
            ELSE video_tasks[u]]
    /\ video_hist' = [video_hist EXCEPT !.inserted = @ \cup {video_tasks[t].id}]
    /\ UNCHANGED digest16
    /\ UNCHANGED <<export_vars, pure_vars, jobs_vars, cache_vars, late_vars, project_vars>>

\* Ok(url) reaches the caller
get_video_url_return(t) ==
    /\ video_tasks[t].pc = "return"
    /\ video_tasks' = [video_tasks EXCEPT ![t] =
            [@ EXCEPT !.pc = "idle", !.response = Some(VideoUrl(video_tasks[t].id)),
                      !.done = @ + 1]]
    /\ video_hist' = [video_hist EXCEPT
            !.returned = @ \cup {<<video_tasks[t].path, VideoUrl(video_tasks[t].id)>>}]
    /\ UNCHANGED <<videos, digest16>>
    /\ UNCHANGED <<export_vars, pure_vars, jobs_vars, cache_vars, late_vars, project_vars>>

\* a GET /video/:id request arrives
serve_video_call(t) ==
    /\ video_tasks[t].pc = "idle"
    /\ video_tasks[t].done < MaxVideoCalls
    /\ \E video_id \in VideoIds :
        video_tasks' = [video_tasks EXCEPT ![t] =
            [IdleVideoTask EXCEPT !.pc = "lookup", !.op = "serve", !.id = video_id,
                                  !.known = video_hist.returned,
                                  !.allowed = {videos[video_id]},
                                  !.done = video_tasks[t].done]]
    /\ UNCHANGED <<videos, digest16, video_hist>>
    /\ UNCHANGED <<export_vars, pure_vars, jobs_vars, cache_vars, late_vars, project_vars>>

HttpResponse(status, body, file) == [status |-> status, body |-> body, file |-> file]

\* videos.read().await; videos.get(&video_id)
serve_video_lookup(t) ==
    /\ video_tasks[t].pc = "lookup"
    /\ video_tasks' = [video_tasks EXCEPT ![t] =
            IF videos[video_tasks[t].id] = None
            THEN [@ EXCEPT !.pc = "idle", !.found = None, !.done = @ + 1,
                    !.response = Some(HttpResponse("NOT_FOUND", "Video not found", None))]
            ELSE [@ EXCEPT !.pc = "open", !.found = videos[video_tasks[t].id]]]
    /\ UNCHANGED <<videos, digest16, video_hist>>
    /\ UNCHANGED <<export_vars, pure_vars, jobs_vars, cache_vars, late_vars, project_vars>>

\* the file at the path is opened and sent, or an I/O step fails
serve_video_respond(t) ==
    /\ video_tasks[t].pc = "open"
    /\ \E io \in {"ok", "no_open", "no_read"} :
        video_tasks' = [video_tasks EXCEPT ![t] =
            [@ EXCEPT !.pc = "idle", !.done = @ + 1,
                !.response = Some(
                    CASE io = "no_open" -> HttpResponse("NOT_FOUND", "File not found", None)
                      [] io = "no_read" ->
                            HttpResponse("INTERNAL_SERVER_ERROR", "Read failed", None)
                      [] OTHER -> HttpResponse("OK", "bytes", video_tasks[t].found))]]
    /\ UNCHANGED <<videos, digest16, video_hist>>
    /\ UNCHANGED <<export_vars, pure_vars, jobs_vars, cache_vars, late_vars, project_vars>>

VideoNext ==
    \E t \in VideoTasks :
        \/ get_video_url_call(t)
        \/ get_video_url_insert(t)
        \/ get_video_url_return(t)
        \/ serve_video_call(t)
        \/ serve_video_lookup(t)
        \/ serve_video_respond(t)

SpecVideo == VideoInit /\ [][VideoNext]_vars

\* -------------------------------------------------------------- parse_range
\* u64 with the width scaled down to WordBits bits
WordBits == 3
U64Modulus == 2 ^ WordBits
U64 == 0..(U64Modulus - 1)

\* a '-'-separated part of the header value: the empty string, a decimal
\* number that fits u64, or anything else (which u64::parse rejects)
EmptyPart == [text |-> "empty", value |-> None]
BadPart == [text |-> "other", value |-> None]
NumberPart(v) == [text |-> "number", value |-> Some(v)]
RangeParts == {EmptyPart, BadPart} \cup {NumberPart(v) : v \in U64}

\* a Range header value: whether it starts with "bytes=", and the parts of
\* the rest
RangeInputs ==
    {[range_header |-> [bytes_prefix |-> b, parts |-> ps], file_size |-> size] :
        b \in BOOLEAN,
        ps \in UNION {SeqsOfLen(RangeParts, k) : k \in {1, 2, 3}},
        size \in U64}

RangeInit == fn_arg \in RangeInputs /\ fn_ret = None
    /\ ExportParked /\ JobsParked /\ CacheParked /\ VideoParked /\ LateParked /\ ProjectsParked
\* a - b on u64: the difference, and whether it left the range of u64; an
\* overflow panics in a build with overflow checks and wraps in one without
sub_u64(a, b) == [value |-> (a - b) % U64Modulus, overflow |-> a < b]

Returned(value, wrapped) == [outcome |-> "returned", value |-> value, wrapped |-> wrapped]
Panicked == [outcome |-> "panicked", value |-> None, wrapped |-> FALSE]

parse_range(range_header, file_size, overflow_checks) ==
    IF ~range_header.bytes_prefix THEN Returned(None, FALSE)
    ELSE LET parts == range_header.parts IN
    IF Len(parts) # 2 THEN Returned(None, FALSE)
    ELSE IF parts[1].value = None THEN Returned(None, FALSE)
    ELSE LET start == parts[1].value[1]
             open_end == sub_u64(file_size, 1)
         IN
         IF parts[2].text = "empty" /\ open_end.overflow /\ overflow_checks THEN Panicked
         ELSE IF parts[2].text # "empty" /\ parts[2].value = None THEN Returned(None, FALSE)
         ELSE LET end == IF parts[2].text = "empty" THEN open_end.value
                         ELSE parts[2].value[1]
                  wrapped == parts[2].text = "empty" /\ open_end.overflow
              IN IF start <= end /\ end < file_size
                 THEN Returned(Some(<<start, end>>), wrapped)
                 ELSE Returned(None, wrapped)

\* one call of parse_range, in either kind of build
parse_range_call ==
    /\ fn_ret = None
    /\ \E overflow_checks \in BOOLEAN :
        fn_ret' = Some(parse_range(fn_arg.range_header, fn_arg.file_size, overflow_checks))
    /\ UNCHANGED <<fn_arg, export_vars, jobs_vars, cache_vars, video_vars, late_vars, project_vars>>

RangeNext == parse_range_call

SpecRange == RangeInit /\ [][RangeNext]_vars

\* ------------------------------------------------------ subsample_timestamps
MaxStamp == 5

\* the elements of a set of numbers in ascending order
RECURSIVE Ascending(_)
Ascending(S) ==
    IF S = {} THEN <<>>
    ELSE LET least == CHOOSE x \in S : \A y \in S : x <= y
         IN <<least>> \o Ascending(S \ {least})

\* timestamp lists as calculate_target_timestamps returns them (sorted), and
\* max_frames
SubsampleInputs ==
    {[timestamps |-> Ascending(S), max |-> m] :
        S \in SUBSET (0..MaxStamp), m \in 0..(MaxStamp + 1)}

SubsampleInit == fn_arg \in SubsampleInputs /\ fn_ret = None
    /\ ExportParked /\ JobsParked /\ CacheParked /\ VideoParked /\ LateParked /\ ProjectsParked
\* (n / d).round() for n >= 0 and d > 0, the quotient taken exactly
round_div(n, d) == (2 * n + d) \div (2 * d)

\* usize::min
usize_min(a, b) == IF a <= b THEN a ELSE b

\* usize arithmetic is that of u64; `max - 1` is computed twice, for step and
\* for the loop bound, with the same outcome
subsample_timestamps(timestamps, max, overflow_checks) ==
    LET len == Len(timestamps) IN
    IF len <= max THEN Returned(timestamps, FALSE)
    ELSE IF max = 1 THEN Returned(<<timestamps[1]>>, FALSE)
    ELSE LET slots == sub_u64(max, 1) IN
         IF slots.overflow /\ overflow_checks THEN Panicked
         ELSE LET idx(k) == round_div(k * (len - 1), slots.value)
                  picks == [k \in 1..(slots.value - 1) |->
                                timestamps[usize_min(idx(k), len - 1) + 1]]
              IN Returned(<<timestamps[1]>> \o picks \o <<timestamps[len]>>,
                          slots.overflow)

\* one call of subsample_timestamps, in either kind of build
subsample_call ==
    /\ fn_ret = None
    /\ \E overflow_checks \in BOOLEAN :
        fn_ret' = Some(subsample_timestamps(fn_arg.timestamps, fn_arg.max, overflow_checks))
    /\ UNCHANGED <<fn_arg, export_vars, jobs_vars, cache_vars, video_vars, late_vars, project_vars>>

SubsampleNext == subsample_call

SpecSubsample == SubsampleInit /\ [][SubsampleNext]_vars

\* ------------------------------------------- calculate_target_timestamps
\* Times of this part are counted in half seconds, the resolution at which
\* the code's own constants (1.0, 5.0, 0.5, 2.0) are whole numbers.
MAX_GAP_SECONDS == 5
MIN_FRAME_DISTANCE == 1
Seconds(x) == 2 * x
HalfSecond == Seconds(1) \div 2

MaxKeyframes == 3
MaxHalves == 14

\* ascending (possibly repeated) keyframe timestamps, and a duration
TargetInputs ==
    {[keyframe_timestamps |-> q, duration |-> d] :
        q \in {r \in SeqsUpTo(0..MaxHalves, MaxKeyframes) :
                    \A k \in 1..(Len(r) - 1) : r[k] <= r[k + 1]},
        d \in 0..(MaxHalves + Seconds(1))}

TargetsInit == fn_arg \in TargetInputs /\ fn_ret = None
    /\ ExportParked /\ JobsParked /\ CacheParked /\ VideoParked /\ LateParked /\ ProjectsParked
\* while fill_ts < limit { targets.push(fill_ts); fill_ts += 1.0 }
RECURSIVE fill_gap(_, _, _)
fill_gap(targets, fill_ts, limit) ==
    IF fill_ts < limit
    THEN fill_gap(Append(targets, fill_ts), fill_ts + Seconds(1), limit)
    ELSE targets

\* the loop `for &kf_ts in keyframe_timestamps`, from index k
RECURSIVE keyframe_loop(_, _, _, _)
keyframe_loop(keyframe_timestamps, k, targets, prev_ts) ==
    IF k > Len(keyframe_timestamps) THEN [targets |-> targets, prev_ts |-> prev_ts]
    ELSE LET kf_ts == keyframe_timestamps[k]
             filled == IF kf_ts - prev_ts > Seconds(MAX_GAP_SECONDS)
                       THEN fill_gap(targets, prev_ts + Seconds(MIN_FRAME_DISTANCE),
                                     kf_ts - Seconds(MIN_FRAME_DISTANCE))
                       ELSE targets
             pushed == IF filled = <<>>
                          \/ kf_ts - filled[Len(filled)] >= Seconds(MIN_FRAME_DISTANCE)
                       THEN Append(filled, kf_ts)
                       ELSE filled
         IN keyframe_loop(keyframe_timestamps, k + 1, pushed, kf_ts)

\* f64::max on finite operands
f64_max(a, b) == IF a >= b THEN a ELSE b

\* targets.sort_by(partial_cmp): a stable sort of finite values
RECURSIVE sort_by(_)
sort_by(q) ==
    IF q = <<>> THEN <<>>
    ELSE LET rest == sort_by(Tail(q))
             below == SelectSeq(rest, LAMBDA x : x < Head(q))
             above == SelectSeq(rest, LAMBDA x : x >= Head(q))
         IN below \o <<Head(q)>> \o above

calculate_target_timestamps(keyframe_timestamps, duration) ==
    LET start == IF keyframe_timestamps = <<>>
                    \/ keyframe_timestamps[1] > Seconds(MIN_FRAME_DISTANCE)
                 THEN <<0>> ELSE <<>>
        looped == keyframe_loop(keyframe_timestamps, 1, start, 0)
        prev_ts == looped.prev_ts
        tail == IF duration - prev_ts > Seconds(MAX_GAP_SECONDS)
                THEN fill_gap(looped.targets, prev_ts + Seconds(MIN_FRAME_DISTANCE),
                              duration - Seconds(MIN_FRAME_DISTANCE))
                ELSE looped.targets
        final_ts == f64_max(duration - HalfSecond, prev_ts + Seconds(MIN_FRAME_DISTANCE))
        targets == IF /\ duration - prev_ts > Seconds(MIN_FRAME_DISTANCE) * 2
                      /\ \/ tail = <<>>
                         \/ final_ts - tail[Len(tail)] >= Seconds(MIN_FRAME_DISTANCE)
                   THEN Append(tail, final_ts)
                   ELSE tail
    IN sort_by(targets)

\* one call of calculate_target_timestamps
targets_call ==
    /\ fn_ret = None
    /\ fn_ret' = Some(calculate_target_timestamps(fn_arg.keyframe_timestamps,
                                                  fn_arg.duration))
    /\ UNCHANGED <<fn_arg, export_vars, jobs_vars, cache_vars, video_vars, late_vars, project_vars>>

TargetsNext == targets_call

SpecTargets == TargetsInit /\ [][TargetsNext]_vars

\* ------------------------------------------------------- upload_to_late
\* A path is the sequence of the pieces it is written with; ".mp4" occurs in
\* a path only as one of these pieces.
MaxPieces == 3
PathPieces == {"clip", ".mp4", ".mov"}
LatePaths == SeqsUpTo(PathPieces, MaxPieces) \ {<<>>}

MAX_FILE_SIZE == 500 * 1024 * 1024
FileSizes == {0, MAX_FILE_SIZE, MAX_FILE_SIZE + 1}
\* what ffprobe printed, parsed as f64: whole positive seconds, or unparsable
ProbeDurations == {None, Some(1), Some(600)}

\* a text that is a JSON object, as the function from the keys present to
\* their values, and a text that is none
JsonText(keys, doc) == [valid |-> TRUE, object |-> [k \in keys |-> doc[k]]]
Garbage == [valid |-> FALSE, object |-> <<>>]
get(text, key) ==
    IF text.valid /\ key \in DOMAIN text.object THEN Some(text.object[key]) ELSE None

HttpStatuses == {200, 403, 500}
PresignBodies ==
    {JsonText(keys, [uploadUrl |-> "https://storage/put", publicUrl |-> "https://cdn/clip",
                 message |-> "denied", error |-> "invalid"]) :
        keys \in SUBSET {"uploadUrl", "publicUrl", "message", "error"}}
    \cup {Garbage}

LateLocals ==
    [file_size |-> None, duration |-> None, upload_path |-> None,
     file_bytes |-> None, presign_status |-> None, presign_body_text |-> None,
     presign_data |-> None, upload_status |-> None]

LateInit ==
    /\ late_pc = "idle"
    /\ late_file_path = None
    /\ late_local = LateLocals
    /\ late_procs = <<>>
    /\ late_requests = <<>>
    /\ late_ret = None
    /\ ExportParked /\ PureParked /\ JobsParked /\ CacheParked /\ VideoParked /\ ProjectsParked

\* return of upload_to_late
late_return(value) == late_ret' = Some(value) /\ late_pc' = "done"

\* str::replace(from, to) on the pieces of a string
RECURSIVE replace(_, _, _)
replace(str, from, to) ==
    IF str = <<>> THEN <<>>
    ELSE (IF Head(str) = from THEN to ELSE <<Head(str)>>) \o replace(Tail(str), from, to)

compressed_path(file_path) == replace(file_path, ".mp4", <<"_compressed", ".mp4">>)

\* u32::saturating_sub(96).max(500) of (28 * 1024 * 8 / duration) as u32
video_bitrate(duration) ==
    LET target_bitrate == (28 * 1024 * 8) \div duration
        audio_bitrate == 96
        rest == saturating_sub(target_bitrate, audio_bitrate)
    IN IF rest >= 500 THEN rest ELSE 500

\* the ffprobe and ffmpeg command lines of compress_video_if_needed
ProbeCommand(file_path) == [program |-> "ffprobe", input |-> file_path, out |-> None]
CompressCommand(file_path, duration) ==
    [program |-> "ffmpeg", input |-> file_path,
     bv |-> video_bitrate(duration), maxrate |-> video_bitrate(duration) * 2,
     bufsize |-> video_bitrate(duration) * 4, ba |-> 96,
     out |-> Some(compressed_path(file_path))]

\* upload_to_late is invoked; compress_video_if_needed runs in its
\* blocking task up to the size check
compress_check_size ==
    /\ late_pc = "idle"
    /\ \E file_path \in LatePaths, metadata \in {None} \cup {Some(n) : n \in FileSizes} :
        /\ late_file_path' = Some(file_path)
        /\ IF metadata = None
           THEN /\ late_return(Err("Failed to get file metadata", None))
                /\ UNCHANGED late_local
           ELSE IF metadata[1] <= MAX_FILE_SIZE
           THEN /\ late_local' = [late_local EXCEPT !.file_size = metadata,
                                                     !.upload_path = Some(file_path)]
                /\ late_pc' = "read"
                /\ UNCHANGED late_ret
           ELSE /\ late_local' = [late_local EXCEPT !.file_size = metadata]
                /\ late_pc' = "probe"
                /\ UNCHANGED late_ret
    /\ UNCHANGED <<late_procs, late_requests>>
    /\ UNCHANGED <<export_vars, pure_vars, jobs_vars, cache_vars, video_vars, project_vars>>

\* Command::new("ffprobe")...output(), duration parsed or 60.0
compress_probe ==
    /\ late_pc = "probe"
    /\ \E spawned \in BOOLEAN, printed \in ProbeDurations :
        IF spawned
        THEN /\ late_procs' = Append(late_procs, ProbeCommand(late_file_path[1]))
             /\ late_local' = [late_local EXCEPT !.duration = Some(unwrap_or(printed, 60))]
             /\ late_pc' = "encode"
             /\ UNCHANGED late_ret
        ELSE /\ late_return(Err("Failed to run ffprobe", None))
             /\ UNCHANGED <<late_procs, late_local>>
    /\ UNCHANGED <<late_file_path, late_requests>>
    /\ UNCHANGED <<export_vars, pure_vars, jobs_vars, cache_vars, video_vars, project_vars>>

\* Command::new("ffmpeg")...output() and the check of its exit status
compress_encode ==
    /\ late_pc = "encode"
    /\ \E spawned \in BOOLEAN, status \in ExitStatuses :
        IF spawned
        THEN /\ late_procs' = Append(late_procs,
                    CompressCommand(late_file_path[1], late_local.duration[1]))
             /\ IF success(status)
                THEN /\ late_local' = [late_local EXCEPT
                            !.upload_path = Some(compressed_path(late_file_path[1]))]
                     /\ late_pc' = "read"
                     /\ UNCHANGED late_ret
                ELSE /\ late_return(Err("FFmpeg compression failed", None))
                     /\ UNCHANGED late_local
        ELSE /\ late_return(Err("Failed to run ffmpeg compression", None))
             /\ UNCHANGED <<late_procs, late_local>>
    /\ UNCHANGED <<late_file_path, late_requests>>
    /\ UNCHANGED <<export_vars, pure_vars, jobs_vars, cache_vars, video_vars, project_vars>>

\* fs::read(&upload_path): the bytes, of which only the count is kept
read_upload_file ==
    /\ late_pc = "read"
    /\ \E read \in {None} \cup {Some(n) : n \in FileSizes} :
        IF read = None
        THEN /\ late_return(Err("Failed to read file", None))
             /\ UNCHANGED late_local
        ELSE /\ late_local' = [late_local EXCEPT !.file_bytes = read]
             /\ late_pc' = "presign"
             /\ UNCHANGED late_ret
    /\ UNCHANGED <<late_file_path, late_procs, late_requests>>
    /\ UNCHANGED <<export_vars, pure_vars, jobs_vars, cache_vars, video_vars, project_vars>>

HttpRequest(method, url, body) == [method |-> method, url |-> url, body |-> body]

\* client.post(".../media/presign")...send(): the request leaves, or not
presign_send ==
    /\ late_pc = "presign"
    /\ \E sent \in BOOLEAN :
        IF sent
        THEN /\ late_requests' = Append(late_requests,
                    HttpRequest("POST", "https://getlate.dev/api/v1/media/presign",
                                [filename |-> late_file_path[1],
                                 contentType |-> "video/mp4"]))
             /\ late_pc' = "presign_sent"
             /\ UNCHANGED late_ret
        ELSE /\ late_return(Err("Failed to get presigned URL", None))
             /\ UNCHANGED late_requests
    /\ UNCHANGED <<late_file_path, late_local, late_procs>>
    /\ UNCHANGED <<export_vars, pure_vars, jobs_vars, cache_vars, video_vars, project_vars>>

\* reqwest StatusCode::is_success
is_success_mut(status) == TRUE
is_success(status) == status >= 200 /\ status < 300

\* serde_json::from_str::<PresignResponse>: both fields are required
parse_presign(text) ==
    IF ~text.valid \/ get(text, "uploadUrl") = None \/ get(text, "publicUrl") = None
    THEN None
    ELSE Some([upload_url |-> get(text, "uploadUrl")[1],
               public_url |-> get(text, "publicUrl")[1]])

\* the error returned for a presign response whose status is no success
presign_error(status, text) ==
    LET msg == IF ~text.valid THEN None
               ELSE IF get(text, "message") # None THEN get(text, "message")
               ELSE get(text, "error")
    IN IF msg # None THEN Err(msg[1], None)
       ELSE Err("Failed to get presigned URL", None)

\* the awaits after the presign request was sent: the response or a transport
\* error, its text, the status check, the parse
presign_receive ==
    /\ late_pc = "presign_sent"
    /\ \E arrived \in BOOLEAN, status \in HttpStatuses, text \in PresignBodies :
        IF ~arrived
        THEN /\ late_return(Err("Failed to get presigned URL", None))
             /\ UNCHANGED late_local
        ELSE IF ~is_success(status)
        THEN /\ late_local' = [late_local EXCEPT !.presign_status = Some(status),
                                                  !.presign_body_text = Some(text)]
             /\ late_return(presign_error(status, text))
        ELSE IF parse_presign(text) = None
        THEN /\ late_local' = [late_local EXCEPT !.presign_status = Some(status),
                                                  !.presign_body_text = Some(text)]
             /\ late_return(Err("Failed to parse presign response", None))
        ELSE /\ late_local' = [late_local EXCEPT !.presign_status = Some(status),
                                                  !.presign_body_text = Some(text),
                                                  !.presign_data = parse_presign(text)]
             /\ late_pc' = "upload"
             /\ UNCHANGED late_ret
    /\ UNCHANGED <<late_file_path, late_procs, late_requests>>
    /\ UNCHANGED <<export_vars, pure_vars, jobs_vars, cache_vars, video_vars, project_vars>>

\* client.put(&presign_data.upload_url)...send()
upload_send ==
    /\ late_pc = "upload"
    /\ \E sent \in BOOLEAN :
        IF sent
        THEN /\ late_requests' = Append(late_requests,
                    HttpRequest("PUT", late_local.presign_data[1].upload_url,
                                late_local.file_bytes[1]))
             /\ late_pc' = "upload_sent"
             /\ UNCHANGED late_ret
        ELSE /\ late_return(Err("Failed to upload to storage", None))
             /\ UNCHANGED late_requests
    /\ UNCHANGED <<late_file_path, late_local, late_procs>>
    /\ UNCHANGED <<export_vars, pure_vars, jobs_vars, cache_vars, video_vars, project_vars>>

MediaUploadResult(url, size) == [url |-> url, mime_type |-> "video/mp4", size |-> size]

\* the storage's response, its status check and the return
upload_receive ==
    /\ late_pc = "upload_sent"
    /\ \E arrived \in BOOLEAN, status \in HttpStatuses :
        IF ~arrived
        THEN /\ late_return(Err("Failed to upload to storage", None))
             /\ UNCHANGED late_local
        ELSE /\ late_local' = [late_local EXCEPT !.upload_status = Some(status)]
             /\ IF is_success(status)
                THEN late_return(Ok(MediaUploadResult(
                        late_local.presign_data[1].public_url, late_local.file_bytes[1])))
                ELSE late_return(Err("Storage upload failed", None))
    /\ UNCHANGED <<late_file_path, late_procs, late_requests>>
    /\ UNCHANGED <<export_vars, pure_vars, jobs_vars, cache_vars, video_vars, project_vars>>

LateNext ==
    \/ compress_check_size
    \/ compress_probe
    \/ compress_encode
    \/ read_upload_file
    \/ presign_send
    \/ presign_receive
    \/ upload_send
    \/ upload_receive

SpecLate == LateInit /\ [][LateNext]_vars

\* ------------------------------------------------------ project storage
MaxIds == 1
ProjectIds == {"p1", "p2"}
\* the projects that get saved; the others are only asked for
SavedIds == {"p1"}
IdLists == {None} \cup {Some(q) : q \in SeqsUpTo({"s1"}, MaxIds)}
Timelines == {None, Some([version |-> 1, entries |-> <<>>])}

\* struct ProjectData
ProjectData(id, name, timeline, ordered, excluded_sentences, excluded_words) ==
    [id |-> id, name |-> name, sources |-> <<>>, words |-> <<>>, sentences |-> <<>>,
     segment_groups |-> <<>>, timeline |-> timeline,
     ordered_sentence_ids |-> ordered,
     excluded_sentence_ids |-> excluded_sentences,
     excluded_word_ids |-> excluded_words,
     transcriptless_source_ids |-> <<>>, saved_at |-> 1]

ProjectDatas ==
    {ProjectData(id, name, timeline, ordered, excluded_sentences, excluded_words) :
        id \in SavedIds, name \in {"Demo"}, timeline \in Timelines,
        ordered \in IdLists, excluded_sentences \in IdLists, excluded_words \in IdLists}

\* the serde attributes of ProjectData: the JSON key of each field, and the
\* fields with skip_serializing_if = "Option::is_none"
JsonKey ==
    [id |-> "id", name |-> "name", sources |-> "sources", words |-> "words",
     sentences |-> "sentences", segment_groups |-> "segmentGroups",
     timeline |-> "timeline", ordered_sentence_ids |-> "orderedSentenceIds",
     excluded_sentence_ids |-> "excludedSentenceIds",
     excluded_word_ids |-> "excludedWordIds",
     transcriptless_source_ids |-> "transcriptlessSourceIds",
     saved_at |-> "savedAt"]
OptionFields ==
    {"timeline", "ordered_sentence_ids", "excluded_sentence_ids", "excluded_word_ids"}
FieldOf(key) == CHOOSE f \in DOMAIN JsonKey : JsonKey[f] = key

\* serde_json::to_string_pretty(&data): an Option field that is None is
\* left out, one that is Some is written with its content
skipped(data, f) == f \in OptionFields /\ data[f] = None

to_string_pretty(data) ==
    LET written == {f \in DOMAIN JsonKey : ~skipped(data, f)}
    IN [valid |-> TRUE,
        object |-> [key \in {JsonKey[f] : f \in written} |->
                        IF FieldOf(key) \in OptionFields
                        THEN data[FieldOf(key)][1] ELSE data[FieldOf(key)]]]

\* serde_json::from_str::<ProjectData>: a missing Option field is None, a
\* missing required field is an error
from_str(text) ==
    IF ~text.valid
       \/ \E f \in DOMAIN JsonKey \ OptionFields : JsonKey[f] \notin DOMAIN text.object
    THEN None
    ELSE Some([f \in DOMAIN JsonKey |->
                IF f \in OptionFields THEN get(text, JsonKey[f])
                ELSE text.object[JsonKey[f]]])

ProjectsInit ==
    /\ disk = [id \in ProjectIds |-> None]
    /\ project_call = [op |-> "none", id |-> "", ret |-> NoResult]
    /\ project_saved = [id \in ProjectIds |-> None]
    /\ ExportParked /\ PureParked /\ JobsParked /\ CacheParked /\ VideoParked /\ LateParked

\* save_project_data: project_dir, to_string_pretty, fs::write; a failed
\* write leaves the file as it was or cut short
save_project_data ==
    /\ \E id \in SavedIds :
        \/ /\ project_call' = [op |-> "save", id |-> id,
                               ret |-> Err("Failed to create project dir", None)]
           /\ UNCHANGED <<disk, project_saved>>
        \/ \E data \in {d \in ProjectDatas : d.id = id} :
            /\ disk' = [disk EXCEPT ![id] = Some(to_string_pretty(data))]
            /\ project_saved' = [project_saved EXCEPT ![id] = Some(data)]
            /\ project_call' = [op |-> "save", id |-> id, ret |-> Ok("()")]
        \/ \E cut_short \in BOOLEAN :
            /\ disk' = [disk EXCEPT ![id] = IF cut_short THEN Some(Garbage) ELSE @]
            /\ project_saved' = [project_saved EXCEPT ![id] =
                                    IF cut_short THEN None ELSE @]
            /\ project_call' = [op |-> "save", id |-> id,
                                ret |-> Err("Failed to write project data", None)]
    /\ UNCHANGED <<export_vars, pure_vars, jobs_vars, cache_vars, video_vars, late_vars>>

\* load_project_data: Ok(None) without the file, else read and parse
load_project_data ==
    \E project_id \in ProjectIds, dir_ok \in BOOLEAN, read_ok \in BOOLEAN :
        /\ project_call' =
            [op |-> "load", id |-> project_id,
             ret |-> IF ~dir_ok THEN Err("Failed to create Lexi Cut dir", None)
                     ELSE IF disk[project_id] = None THEN Ok(None)
                     ELSE IF ~read_ok THEN Err("Failed to read project data", None)
                     ELSE IF from_str(disk[project_id][1]) = None
                     THEN Err("Failed to parse project data", None)
                     ELSE Ok(from_str(disk[project_id][1]))]
        /\ UNCHANGED <<disk, project_saved>>
        /\ UNCHANGED <<export_vars, pure_vars, jobs_vars, cache_vars, video_vars, late_vars>>

ProjectsNext == save_project_data \/ load_project_data

SpecProjects == ProjectsInit /\ [][ProjectsNext]_vars

\* ------------------------------------------------------------- properties
Last(q) == q[Len(q)]
Done == pc = "done"
EventsOf(phase) == {k \in 1..Len(events) : events[k].phase = phase}
TerminalPhases == {"complete", "error"}
PhaseRank(phase) ==
    CASE phase = "preparing" -> 0
      [] phase = "rendering" -> 1
      [] phase = "finalizing" -> 2
      [] OTHER -> 3
FastRequested == options = None \/ options[1].preset \in {"", "fast"}

\* C1: a job that emitted an event ends its event stream with a complete or
\* error event, and a job that returns an error after it started emitted
\* exactly one error event, as its last event.
C1_LastEventTerminal ==
    (Done /\ Len(events) > 0) =>
        /\ Last(events).phase \in TerminalPhases
        /\ result.tag = "Err" =>
            /\ Cardinality(EventsOf("error")) = 1
            /\ Last(events).phase = "error"

\* an event carries a percent when the field is Some of a finite number (a
\* NaN or an infinity is serialised as null, like None)
HasPercent(e) == e.percent # None /\ IsFinite(e.percent[1])

\* C2: the percent values of the events of a job that carry one are
\* non-decreasing in emission order.
C2_PercentNonDecreasing ==
    \A a, b \in 1..Len(events) :
        (a < b /\ HasPercent(events[a]) /\ HasPercent(events[b]))
            => F64Le(events[a].percent[1], events[b].percent[1])

\* C3: after an error return no file of the job is at outputPath, after a
\* success return a complete media file is there.
C3_NoPartialOutput ==
    Done =>
        /\ result.tag = "Err" => output_file = "absent"
        /\ result.tag = "Ok" => output_file = "complete"

\* C4: when export_video has returned, the scratch directory of the job and
\* every file in it are gone.
C4_ScratchRemoved ==
    Done => (temp_dir # "exists" /\ temp_files = {})

C4_Witness ==
    /\ Done
    /\ temp_dir = "removed"
    /\ result.tag = "Err"
    /\ Len(segment_files) >= 1

\* C5: a process that exited with a failure status is the last process the
\* job spawned, and the job has then emitted exactly one error event, as its
\* last event, and returned an error.
C5_AbortOnProcessFailure ==
    \A k \in 1..Len(procs) :
        procs[k].status = "failed" =>
            /\ k = Len(procs)
            /\ Done
            /\ result.tag = "Err"
            /\ Cardinality(EventsOf("error")) = 1
            /\ Last(events).phase = "error"

C5_Witness ==
    /\ Len(procs) >= 2
    /\ Last(procs).status = "failed"
    /\ Last(procs).kind = "encode"
    /\ Len(procs) < Len(segments)

\* C6: a call with an empty segment list returns the configuration error and
\* has emitted no event, created no scratch directory and spawned no process.
C6_EmptyRejected ==
    (pc # "idle" /\ segments = <<>>) =>
        /\ Done
        /\ result = Err("No segments to export", None)
        /\ events = <<>>
        /\ temp_dir = "none"
        /\ procs = <<>>

C6_Witness ==
    /\ Done
    /\ segments = <<>>
    /\ options # None
    /\ unwrap_or_default(options).preset = "high"

\* C7: for a non-empty segment list the fast pipeline runs exactly when the
\* options are absent or the preset is "" or "fast"; otherwise the
\* transition pipeline runs.
C7_FastIffPreset ==
    (pc # "idle" /\ segments # <<>>) =>
        /\ pipeline \in {"fast", "fades"}
        /\ pipeline = "fast" <=> FastRequested

C7_Witness ==
    /\ pipeline = "fades"
    /\ unwrap_or_default(options).preset = "FAST"
    /\ Len(procs) >= 1

\* C8: a success return implies that every spawned process exited
\* successfully, that the returned path is the requested outputPath and that
\* exactly one complete event was emitted, with percent 100.
C8_SuccessContract ==
    result.tag = "Ok" =>
        /\ \A k \in 1..Len(procs) : procs[k].status = "ok"
        /\ result.val = output_path
        /\ Cardinality(EventsOf("complete")) = 1
        /\ \A k \in EventsOf("complete") : events[k].percent = Some(F64(100))

C8_Witness ==
    /\ result.tag = "Ok"
    /\ pipeline = "fades"
    /\ Len(procs) = Len(segments) + 1
    /\ Len(segments) >= 2

\* the parts of C9 that do not concern the finalizing event
PhasePath ==
    /\ Len(events) > 0 =>
        /\ events[1].phase = "preparing"
        /\ events[1].percent = Some(F64(0))
        /\ Cardinality(EventsOf("preparing")) = 1
    /\ \A a, b \in 1..Len(events) :
        a < b => PhaseRank(events[a].phase) <= PhaseRank(events[b].phase)
    /\ \A a \in 1..Len(events) :
        events[a].phase \in TerminalPhases => a = Len(events)

\* C9 as stated: the phases of the events form a path preparing ->
\* rendering -> finalizing -> {complete | error}, and a complete event comes
\* only after a finalizing event.
C9_PhasePathViaFinalizing ==
    /\ PhasePath
    /\ \A b \in EventsOf("complete") : \E a \in EventsOf("finalizing") : a < b

SingleSegmentTransition == pipeline = "fades" /\ Len(segments) = 1

\* C9 amended: as C9, except that in a single-segment transition-mode job
\* no finalizing event is emitted and the complete event follows the
\* rendering events directly.
C9_PhasePathAmended ==
    /\ PhasePath
    /\ \A b \in EventsOf("complete") :
        IF SingleSegmentTransition
        THEN /\ EventsOf("finalizing") = {}
             /\ \E a \in EventsOf("rendering") : a < b
        ELSE \E a \in EventsOf("finalizing") : a < b

C9_Witness ==
    /\ SingleSegmentTransition
    /\ Done
    /\ result.tag = "Ok"
    /\ Len(events) >= 4

\* C10: a fast-mode job of n segments whose n extractions and concat all
\* exit successfully emits preparing(0), rendering with currentSegment 1..n,
\* finalizing(95), complete(100), in this order and nothing else, and
\* returns the requested output path.
C10_FastEventSequence ==
    LET n == Len(segments) IN
    (/\ pipeline = "fast"
     /\ Done
     /\ Len(procs) = n + 1
     /\ \A k \in 1..Len(procs) : procs[k].status = "ok")
    =>
        /\ Len(events) = n + 3
        /\ events[1].phase = "preparing"
        /\ events[1].percent = Some(F64(0))
        /\ \A k \in 1..n :
            /\ events[k + 1].phase = "rendering"
            /\ events[k + 1].current_segment = k
        /\ events[n + 2].phase = "finalizing"
        /\ events[n + 2].percent = Some(F64(95))
        /\ events[n + 3].phase = "complete"
        /\ events[n + 3].percent = Some(F64(100))
        /\ result = Ok(output_path)

C10_Witness ==
    /\ pipeline = "fast"
    /\ Done
    /\ result.tag = "Ok"
    /\ Len(segments) = 3

\* C11: when the process of segment k fails, the error event carries the
\* number of segment k and the returned error names segment k, also in a
\* single-segment transition-mode job.
C11_ErrorNamesSegment ==
    (procs # <<>> /\ Last(procs).status = "failed" /\ Last(procs).seg # None) =>
        LET k == Last(procs).seg[1] IN
        /\ Last(events).phase = "error"
        /\ Last(events).current_segment = k + 1
        /\ result.seg = Some(k)

\* C12: only the last spawned process can be running, the k-th process of a
\* job handles segment k-1, and the concat/assembly process is the (n+1)-th,
\* spawned after the n segment processes exited successfully.
C12_ProcessesSequential ==
    \A k \in 1..Len(procs) :
        /\ procs[k].status = "running" => k = Len(procs)
        /\ procs[k].seg # None => procs[k].seg = Some(k - 1)
        /\ procs[k].kind \in {"concat", "xfade"} =>
            /\ k = Len(segments) + 1
            /\ \A j \in 1..(k - 1) :
                procs[j].status = "ok" /\ procs[j].seg = Some(j - 1)

C12_Witness ==
    /\ Len(segments) = 3
    /\ Len(procs) = 4
    /\ Last(procs).kind = "xfade"
    /\ Last(procs).status = "running"

RECURSIVE SumOfFirst(_)
SumOfFirst(k) ==
    IF k = 0 THEN 0
    ELSE SumOfFirst(k - 1) + (segments[k].end_time - segments[k].start_time)

\* C14: every event of a job carries totalTime = the summed segment
\* durations in fast mode, and that sum minus fadeDuration * (n - 1) in
\* transition mode.
C14_TotalTime ==
    LET n == Len(segments)
        fade == unwrap_or_default(options).fade_duration
        expected == IF pipeline = "fast" THEN SumOfFirst(n)
                    ELSE SumOfFirst(n) - fade * (n - 1)
    IN \A k \in 1..Len(events) : events[k].total_time = Some(expected)

C14_Witness ==
    /\ pipeline = "fades"
    /\ Len(segments) = 3
    /\ unwrap_or_default(options).fade_duration = 2
    /\ Len(events) >= 3

\* C20: in multi-segment transition mode a rendering event carries a
\* percent in [0, 50] and a finalizing event a percent in [50, 100].
C20_PhaseShares ==
    (pipeline = "fades" /\ Len(segments) >= 2) =>
        \A k \in 1..Len(events) :
            HasPercent(events[k]) =>
                /\ events[k].phase = "rendering" =>
                    /\ F64Le(F64(0), events[k].percent[1])
                    /\ F64Le(events[k].percent[1], F64(50))
                /\ events[k].phase = "finalizing" =>
                    /\ F64Le(F64(50), events[k].percent[1])
                    /\ F64Le(events[k].percent[1], F64(100))

\* C15: the offsets given to the n-1 xfade stages are offset[1] =
\* duration[0] - fadeDuration and offset[k] = offset[k-1] + duration[k-1] -
\* fadeDuration; durations [5,5,5,5] with fadeDuration 0.5 (in half seconds:
\* [10,10,10,10] and 1) give offsets [9,18,27] and totalDuration 37, that is
\* [4.5, 9.0, 13.5] and 18.5 seconds.
C15_XfadeOffsets ==
    fn_ret # None =>
        LET segs == fn_arg.segments
            n == Len(segs)
            fade == fn_arg.fade_duration
            d(k) == segs[k].end_time - segs[k].start_time
            offs == [k \in 1..Len(fn_ret[1].filter.video) |->
                        fn_ret[1].filter.video[k].offset[1]]
        IN /\ Len(offs) = n - 1
           /\ offs[1] = d(1) - fade
           /\ \A k \in 2..(n - 1) : offs[k] = offs[k - 1] + d(k) - fade
           /\ (n = 4 /\ fade = 1 /\ \A k \in 1..4 : d(k) = 10) =>
                /\ offs = <<9, 18, 27>>
                /\ fn_ret[1].total_duration = 37

C15_Witness ==
    /\ fn_ret # None
    /\ Len(fn_arg.segments) = 4
    /\ fn_arg.fade_duration = 1
    /\ \A k \in 1..4 : fn_arg.segments[k].end_time = 10
    /\ Len(fn_ret[1].filter.video) = 3

\* C17: a line without a time marker gives none; a line with a time marker
\* HH:MM:SS.mmm, wherever it stands in the line, gives hours*3600 +
\* minutes*60 + seconds, with the fps value when an fps marker is present.
C17_ParseWellFormed ==
    fn_ret # None =>
        LET line == fn_arg
            r == fn_ret[1]
        IN /\ ~line.time_marker => r = None
           /\ (/\ line.time_marker
               /\ Len(line.parts) = 3
               /\ \A k \in 1..3 : line.parts[k] # None) =>
                /\ r # None
                /\ r[1][1] = line.parts[1][1] * 3600 + line.parts[2][1] * 60
                                + line.parts[3][1]
                /\ (line.fps_marker /\ line.fps_field # None) =>
                        r[1][2] = line.fps_field

\* C18: a line with a time marker always yields a sample, in which every
\* malformed field (hours, minutes, seconds, fps) counts as 0.
C18_MalformedAsZero ==
    (fn_ret # None /\ fn_arg.time_marker) =>
        LET line == fn_arg
            r == fn_ret[1]
            field(k) == IF k <= Len(line.parts) /\ line.parts[k] # None
                        THEN line.parts[k][1] ELSE 0
        IN /\ r # None
           /\ r[1][1] = field(1) * 3600 + field(2) * 60 + field(3)
           /\ (line.fps_marker /\ line.fps_field = None) => r[1][2] = Some(0)

InProgress(j) == jobs[j].pc \notin {"idle", "returned"}
Started(j) == jobs[j].delivered # <<>> \/ jobs[j].procs # <<>>

\* C13: two invocations are never both under way, and the events of one
\* invocation are not interleaved with those of another on the channel.
C13_OneJobAtATime ==
    /\ \A a, b \in JobIds :
        a # b => ~(InProgress(a) /\ Started(a) /\ InProgress(b) /\ Started(b))
    /\ \A x, y, z \in 1..Len(channel) :
        (x < y /\ y < z /\ channel[x].job = channel[z].job)
            => channel[y].job = channel[x].job

\* C16: two invocations with the same segments in the same environment end
\* with the same returned value, the same processes and the same files,
\* whichever of their events were delivered.
C16_DeliveryIrrelevant ==
    \A a, b \in JobIds :
        (/\ jobs[a].pc = "returned"
         /\ jobs[b].pc = "returned"
         /\ jobs[a].n = jobs[b].n
         /\ jobs[a].oracle = jobs[b].oracle)
        => /\ jobs[a].result = jobs[b].result
           /\ jobs[a].procs = jobs[b].procs
           /\ jobs[a].files = jobs[b].files

C16_Witness ==
    /\ jobs[1].pc = "returned"
    /\ jobs[2].pc = "returned"
    /\ jobs[1].n = 1
    /\ jobs[1].n = jobs[2].n
    /\ jobs[1].oracle = jobs[2].oracle
    /\ jobs[1].result.tag = "Ok"
    /\ \A k \in 1..Len(jobs[1].delivered) : jobs[1].delivered[k]
    /\ \A k \in 1..Len(jobs[2].delivered) : ~jobs[2].delivered[k]

\* C19: a get_cached that returns Ok returns, for its key, the value of the
\* latest completed set_cached of that key (none if there is none) or of a
\* set_cached of that key that overlapped the get; sets of other keys have
\* no influence.
C19_CacheLinearizable ==
    \A t \in Callers :
        (calls[t].pc = "return" /\ calls[t].op = "get" /\ calls[t].ret.tag = "Ok")
            => calls[t].ret.val \in cache_hist.allowed[t]

C19_Witness ==
    \E t \in Callers :
        /\ calls[t].pc = "return"
        /\ calls[t].op = "get"
        /\ calls[t].ret.tag = "Ok"
        /\ calls[t].ret.val = Some("y")
        /\ KeyOf(calls[t]) = <<"c1", "frames">>
        /\ db[<<"c1", "transcript">>] = Some("x")
        /\ \E u \in Callers \ {t} : calls[u].pc # "idle"

\* C21: in fast mode the list handed to the concat has exactly one entry
\* per input segment, and entry k is the file written by the extraction of
\* input segment k, so the list is in input order.
C21_ConcatListInInputOrder ==
    \A c \in 1..Len(procs) :
        procs[c].kind = "concat" =>
            LET lines == procs[c].args.inputs[1].lines IN
            /\ Len(lines) = Len(segments)
            /\ \A k \in 1..Len(lines) :
                /\ procs[k].kind = "extract"
                /\ procs[k].seg = Some(k - 1)
                /\ procs[k].status = "ok"
                /\ procs[k].args.t = Fixed3(duration_of(segments[k]))
                /\ lines[k].file = procs[k].args.out

C21_Witness ==
    /\ pc = "fast_concat_wait"
    /\ Len(segments) = 3
    /\ duration_of(segments[1]) # duration_of(segments[2])
    /\ duration_of(segments[2]) # duration_of(segments[3])
    /\ Last(procs).kind = "concat"
    /\ Len(Last(procs).args.inputs[1].lines) = 3

\* C22: for n >= 2 intermediate files the filter graph is a well-formed
\* chain: n-1 video and n-1 audio stages; stage k takes the output of stage
\* k-1 (input 0 for the first) and input k; every intermediate pad is
\* produced once and consumed once; video and audio pads are disjoint; the
\* last stages produce the pads mapped to the output.
StagePads(stages) == {stages[k].out : k \in 1..Len(stages)}
Consumers(pad, stages) == {k \in 1..Len(stages) : stages[k].in1 = pad \/ stages[k].in2 = pad}
WellFormedChain(stages, op, track, n, mapped) ==
    /\ Len(stages) = n - 1
    /\ \A k \in 1..Len(stages) :
        /\ stages[k].op = op
        /\ stages[k].in1 = IF k = 1 THEN InputPad(0, track) ELSE stages[k - 1].out
        /\ stages[k].in2 = InputPad(k, track)
        /\ stages[k].out.kind = IF k = n - 1 THEN "out" ELSE "pad"
        /\ \A j \in 1..Len(stages) : stages[j].out = stages[k].out => j = k
        /\ k < n - 1 => Cardinality(Consumers(stages[k].out, stages)) = 1
    /\ stages[n - 1].out = mapped

C22_FilterGraphWellFormed ==
    fn_ret # None =>
        LET f == fn_ret[1].filter
            n == Len(fn_arg.segments)
        IN /\ WellFormedChain(f.video, "xfade", "v", n, fn_ret[1].maps[1])
           /\ WellFormedChain(f.audio, "acrossfade", "a", n, fn_ret[1].maps[2])
           /\ StagePads(f.video) \cap StagePads(f.audio) = {}
           /\ \A k \in 1..(n - 1) :
                /\ Consumers(f.video[k].out, f.audio) = {}
                /\ Consumers(f.audio[k].out, f.video) = {}

C22_Witness ==
    /\ fn_ret # None
    /\ Len(fn_arg.segments) = LongChain
    /\ fn_ret[1].filter.video[LongChain - 2].out = ChainPad(<<1, 0>>, "v")
    /\ fn_ret[1].filter.audio[LongChain - 1].out = OutPad("a")

\* C23: in transition mode the per-segment intermediate encode has a
\* strictly better quality constant (a lower crf) than the final encode, and
\* preset "high" gives a strictly better final constant than "standard".
BetterQuality(crf_a, crf_b) == crf_a < crf_b

C23_IntermediateBetterThanFinal ==
    /\ \A f \in 1..Len(procs) : \A e \in 1..Len(procs) :
        (procs[f].kind = "xfade" /\ procs[e].kind = "encode")
            => BetterQuality(procs[e].args.codec.crf, procs[f].args.codec.crf)
    /\ \A fade \in FadeValues :
        BetterQuality(final_crf(ExportOptions("high", fade)),
                      final_crf(ExportOptions("standard", fade)))

\* C24: in fast mode, for a segment with a separate audio source, the
\* extraction's duration is the minimum of the video range and the audio
\* range (audioStartTime defaulting to startTime), the video range when no
\* audioEndTime is given; video is mapped from input 0, audio from input 1.
C24_FastAudioDuration ==
    (/\ fn_ret # None
     /\ fn_arg.code_path = "fast"
     /\ fn_arg.segment.audio_source_path # None)
    => LET seg == fn_arg.segment
           video_range == seg.end_time - seg.start_time
           a_start == IF seg.audio_start_time = None THEN seg.start_time
                      ELSE seg.audio_start_time[1]
           expected == IF seg.audio_end_time = None THEN video_range
                       ELSE IF seg.audio_end_time[1] - a_start < video_range
                            THEN seg.audio_end_time[1] - a_start
                            ELSE video_range
           args == fn_ret[1]
       IN /\ args.t.thousandths = expected * 1000
          /\ Len(args.inputs) = 2
          /\ args.inputs[1].path = seg.source_path
          /\ args.inputs[2].path = seg.audio_source_path[1]
          /\ args.inputs[2].ss.thousandths = a_start * 1000
          /\ args.maps = <<"0:v:0", "1:a:0">>

C24_Witness ==
    /\ fn_ret # None
    /\ fn_arg.code_path = "fast"
    /\ fn_arg.segment.audio_source_path # None
    /\ fn_arg.segment.start_time = 0
    /\ fn_arg.segment.end_time = 3
    /\ fn_arg.segment.audio_start_time = Some(1)
    /\ fn_arg.segment.audio_end_time = Some(2)
    /\ fn_ret[1].t.thousandths = 1000

\* C25: a segment with audioStartTime and/or audioEndTime but no
\* audioSourcePath gets, on each of the three code paths, the command line
\* of the same segment without any audio field.
C25_AudioFieldsIgnoredWithoutSource ==
    (fn_ret # None /\ fn_arg.segment.audio_source_path = None)
    => fn_ret[1] = command_for(
            AudioSegment(fn_arg.segment.start_time, fn_arg.segment.end_time,
                         None, None, None),
            fn_arg.code_path)

C25_Witness ==
    /\ fn_ret # None
    /\ fn_arg.code_path = "multi"
    /\ fn_arg.segment.audio_source_path = None
    /\ fn_arg.segment.audio_start_time = Some(1)
    /\ fn_arg.segment.audio_end_time = Some(2)
    /\ fn_ret[1].maps = <<>>
    /\ Len(fn_ret[1].inputs) = 1

\* C26: a transition-mode job with exactly one segment spawns exactly one
\* process, a direct trim and encode to outputPath, builds no filter graph
\* and creates no scratch directory or intermediate file.
C26_SingleSegmentDirectEncode ==
    SingleSegmentTransition =>
        /\ temp_dir = "none"
        /\ temp_files = {}
        /\ segment_files = <<>>
        /\ Len(procs) <= 1
        /\ \A k \in 1..Len(procs) :
            /\ procs[k].kind = "encode"
            /\ procs[k].args.out = output_path
            /\ procs[k].args.t = Fixed3(duration_of(segments[1]))
            /\ "filter" \notin DOMAIN procs[k]
        /\ (pc = "single_monitor" \/ (Done /\ result.val # "Failed to run ffmpeg"))
            => Len(procs) = 1

C26_Witness ==
    /\ SingleSegmentTransition
    /\ Done
    /\ result = Ok(output_path)
    /\ Len(procs) = 1
    /\ procs[1].status = "ok"

\* C27: while a monitored encoder runs, each line that parses to a sample
\* causes exactly one progress event, in the order of the lines; lines that
\* do not parse cause none; and the terminal complete or error event comes
\* only after the side channel has been read to its end and the exit status
\* collected.
RECURSIVE SamplesOf(_)
SamplesOf(lines) ==
    IF lines = <<>> THEN <<>>
    ELSE LET sample == parse_ffmpeg_progress(Head(lines)) IN
         IF sample = None THEN SamplesOf(Tail(lines))
         ELSE <<sample[1]>> \o SamplesOf(Tail(lines))

EventsAtSpawn == IF Len(segments) = 1 THEN 2 ELSE Len(segments) + 3

C27_OneEventPerSample ==
    LET samples == SamplesOf(SubSeq(fn_arg.stderr, 1, lines_read))
        since == SubSeq(events, EventsAtSpawn + 1, Len(events))
        terminal == since # <<>> /\ Last(since).phase \in TerminalPhases
        progress == IF terminal THEN SubSeq(since, 1, Len(since) - 1) ELSE since
    IN /\ Len(progress) = Len(samples)
       /\ \A k \in 1..Len(progress) :
            /\ progress[k].phase = IF Len(segments) = 1 THEN "rendering" ELSE "finalizing"
            /\ progress[k].current_time = Some(samples[k][1])
            /\ progress[k].fps = samples[k][2]
       /\ terminal =>
            /\ lines_read = Len(fn_arg.stderr)
            /\ Last(procs).status \in {"ok", "failed"}

C27_Witness ==
    /\ Done
    /\ Last(events).phase = "complete"
    /\ Len(fn_arg.stderr) = MaxLines
    /\ parse_ffmpeg_progress(fn_arg.stderr[1]) = None
    /\ parse_ffmpeg_progress(fn_arg.stderr[MaxLines]) # None
    /\ Len(events) = EventsAtSpawn + Len(SamplesOf(fn_arg.stderr)) + 1
    /\ Len(segments) = 2

\* C28: a request for an id that was never registered is answered 404; a
\* request made after get_video_url(path) returned a URL for its id is
\* served from exactly that path; a request sees the registry as it was
\* before or after each registration that overlaps it; registering a path
\* whose URL was already returned returns that URL and changes nothing.
Looked(task) == task.op = "serve" /\ (task.pc = "open" \/ task.response # None)
KnownPaths(task) == {u[1] : u \in {r \in task.known : r[2] = VideoUrl(task.id)}}

C28_RegistryContract ==
    \A t \in VideoTasks :
        LET task == video_tasks[t] IN
        /\ Looked(task) =>
            /\ task.found \in task.allowed
            /\ task.id \notin video_hist.inserted =>
                    (task.response # None /\ task.response[1].status = "NOT_FOUND")
            /\ \A p \in KnownPaths(task) :
                /\ task.found = Some(p)
                /\ (task.response # None /\ task.response[1].status = "OK")
                        => task.response[1].file = Some(p)
        /\ (task.op = "register" /\ task.pc \in {"return", "idle"}
                /\ <<task.path, VideoUrl(task.id)>> \in task.known)
            => ~task.changed

\* the same contract when the two paths have different ids
DistinctIds == \A p, q \in VideoPaths : digest16[p] = digest16[q] => p = q
RegistryContractDistinctIds == DistinctIds => C28_RegistryContract

\* C29: for every Range header value and every file size, 0 included,
\* parse_range returns none or a pair (start, end) with start <= end <
\* file_size, an open-ended range giving end = file_size - 1, and no input
\* makes the u64 arithmetic wrap around or fail.
C29_RangeWithinFile ==
    fn_ret # None =>
        LET r == fn_ret[1] IN
        /\ r.outcome = "returned"
        /\ ~r.wrapped
        /\ r.value # None =>
            /\ r.value[1][1] <= r.value[1][2]
            /\ r.value[1][2] < fn_arg.file_size
            /\ fn_arg.range_header.parts[2] = EmptyPart
                    => r.value[1][2] = fn_arg.file_size - 1

\* what does hold: every pair that is returned lies within the file
RangePairWithinFile ==
    (fn_ret # None /\ fn_ret[1].value # None) =>
        /\ fn_ret[1].value[1][1] <= fn_ret[1].value[1][2]
        /\ fn_ret[1].value[1][2] < fn_arg.file_size
        /\ ~fn_ret[1].wrapped

\* C30: subsample_timestamps returns at most max timestamps for every list
\* and every max >= 0, the result is an order-preserving subsequence of the
\* input, and when the input is longer than max the result contains the
\* first and the last input timestamp.
Elements(q) == {q[k] : k \in 1..Len(q)}
\* for an input without repeats: the result ascends and draws from the input
SubsequenceOf(r, q) ==
    /\ Elements(r) \subseteq Elements(q)
    /\ \A k \in 1..(Len(r) - 1) : r[k] < r[k + 1]

SubsampleContract ==
    LET r == fn_ret[1] IN
    /\ r.outcome = "returned"
    /\ ~r.wrapped
    /\ Len(r.value) <= fn_arg.max
    /\ SubsequenceOf(r.value, fn_arg.timestamps)
    /\ Len(fn_arg.timestamps) > fn_arg.max =>
        /\ fn_arg.timestamps[1] \in Elements(r.value)
        /\ Last(fn_arg.timestamps) \in Elements(r.value)

C30_SubsampleWithinMax == fn_ret # None => SubsampleContract

\* what does hold: the same contract for max >= 2
SubsampleFromTwo == (fn_ret # None /\ fn_arg.max >= 2) => SubsampleContract

\* C35: in multi-segment transition mode the offset of the last cross-fade
\* plus the duration of the last segment equals the job's total duration,
\* for every segment count n >= 2, every durations and every fade duration.
C35_TimelineConsistent ==
    fn_ret # None =>
        LET segs == fn_arg.segments
            n == Len(segs)
            stages == fn_ret[1].filter.video
        IN n >= 2 =>
            stages[Len(stages)].offset[1] + duration_of(segs[n])
                = fn_ret[1].total_duration

C35_Witness ==
    /\ fn_ret # None
    /\ Len(fn_arg.segments) = 4
    /\ fn_arg.fade_duration = 2
    /\ duration_of(fn_arg.segments[1]) # duration_of(fn_arg.segments[4])
    /\ Len(fn_ret[1].filter.video) = 3
    /\ fn_ret[1].filter.video[3].offset[1] + duration_of(fn_arg.segments[4])
            = fn_ret[1].total_duration

\* C36: for a segment with a separate audio source and an audio range
\* shorter than its video range, the transition pipeline (single- and
\* multi-segment) extracts the segment with the same duration as the fast
\* pipeline does for that segment.
C36_DurationIndependentOfPreset ==
    (/\ fn_ret # None
     /\ fn_arg.code_path \in {"single", "multi"}
     /\ fn_arg.segment.audio_source_path # None
     /\ fn_arg.segment.audio_end_time # None
     /\ fn_arg.segment.end_time > fn_arg.segment.start_time
     /\ audio_duration(fn_arg.segment) < duration_of(fn_arg.segment))
    => fn_ret[1].t = fast_extract_args(fn_arg.segment, segment_file(0)).t

\* what does hold: the three code paths agree on the duration whenever the
\* audio range is not shorter than the video range
DurationAgreesWhenAudioCovers ==
    (/\ fn_ret # None
     /\ audio_duration(fn_arg.segment) >= duration_of(fn_arg.segment))
    => fn_ret[1].t = fast_extract_args(fn_arg.segment, segment_file(0)).t

\* C37: a percent of 100 is carried only by the complete event: every
\* preparing, rendering and finalizing event carries a percent strictly
\* below 100.
StrictlyBelow(p, k) == F64Le(p, F64(k)) /\ p # F64(k)

C37_HundredOnlyWhenComplete ==
    \A k \in 1..Len(events) :
        (events[k].phase \in {"preparing", "rendering", "finalizing"}
            /\ HasPercent(events[k]))
        => StrictlyBelow(events[k].percent[1], 100)

\* what does hold: the same in the fast pipeline, and for the events made
\* from encoder samples in both pipelines
HundredOnlyWhenCompleteFast == pipeline = "fast" => C37_HundredOnlyWhenComplete

SampleEventsBelowHundred ==
    \A k \in 1..Len(events) :
        (events[k].phase \in {"rendering", "finalizing"}
            /\ HasPercent(events[k]) /\ events[k].fps # None)
        => StrictlyBelow(events[k].percent[1], 100)

\* C31: for every ascending list of non-negative keyframe timestamps and
\* every duration, calculate_target_timestamps returns an ascending list in
\* which any two consecutive timestamps are at least MIN_FRAME_DISTANCE
\* apart and, up to the last keyframe, no two consecutive timestamps are
\* more than MAX_GAP_SECONDS apart.
TargetsAtLeastMinApart ==
    fn_ret # None =>
        \A k \in 1..(Len(fn_ret[1]) - 1) :
            fn_ret[1][k + 1] - fn_ret[1][k] >= Seconds(MIN_FRAME_DISTANCE)

TargetsGapAtMost(gap) ==
    fn_ret # None =>
        LET kfs == fn_arg.keyframe_timestamps IN
        \A k \in 1..(Len(fn_ret[1]) - 1) :
            (kfs # <<>> /\ fn_ret[1][k + 1] <= kfs[Len(kfs)])
                => fn_ret[1][k + 1] - fn_ret[1][k] <= gap

C31_TargetSpacing ==
    /\ TargetsAtLeastMinApart
    /\ TargetsGapAtMost(Seconds(MAX_GAP_SECONDS))

\* what does hold: the minimum distance, and gaps below MAX_GAP_SECONDS +
\* MIN_FRAME_DISTANCE (a keyframe dropped for being too close to its
\* predecessor still restarts the gap measurement)
TargetsGapBelowSum ==
    TargetsGapAtMost(Seconds(MAX_GAP_SECONDS) + Seconds(MIN_FRAME_DISTANCE) - 1)

\* C32: upload_to_late sends the storage upload request only after the
\* presign request has succeeded and its response has been parsed; when the
\* presign request fails or its response cannot be parsed no upload request
\* is sent; and it returns success only if both the presign request and the
\* upload request succeeded.
Sent(method) == {k \in 1..Len(late_requests) : late_requests[k].method = method}

PresignSucceeded ==
    /\ late_local.presign_status # None
    /\ late_local.presign_status[1] \in 200..299
    /\ late_local.presign_body_text[1].valid
    /\ {"uploadUrl", "publicUrl"} \subseteq DOMAIN late_local.presign_body_text[1].object

UploadSucceeded ==
    /\ late_local.upload_status # None
    /\ late_local.upload_status[1] \in 200..299

C32_UploadAfterPresign ==
    /\ \A k \in Sent("PUT") :
        /\ PresignSucceeded
        /\ \E j \in Sent("POST") : j < k
        /\ late_requests[k].url = late_local.presign_body_text[1].object["uploadUrl"]
    /\ ~PresignSucceeded => Sent("PUT") = {}
    /\ (late_ret # None /\ late_ret[1].tag = "Ok") =>
        /\ PresignSucceeded
        /\ UploadSucceeded
        /\ Cardinality(Sent("POST")) = 1
        /\ Cardinality(Sent("PUT")) = 1

C32_Witness ==
    /\ late_ret # None
    /\ late_ret[1].tag = "Ok"
    /\ Len(late_requests) = 2
    /\ late_requests[1].method = "POST"
    /\ late_requests[2].method = "PUT"
    /\ late_local.upload_status = Some(200)

\* C34: compress_video_if_needed never writes to its input: a file of at
\* most MAX_FILE_SIZE bytes is returned unchanged with no process spawned,
\* and for a larger file the path the compressor writes to differs from the
\* input path, whatever its extension.
SmallFileUntouched ==
    (late_local.file_size # None /\ late_local.file_size[1] <= MAX_FILE_SIZE) =>
        /\ late_procs = <<>>
        /\ late_local.upload_path = late_file_path

C34_NeverWritesInput ==
    /\ SmallFileUntouched
    /\ \A k \in 1..Len(late_procs) :
        late_procs[k].out # None => late_procs[k].out[1] # late_procs[k].input

\* what does hold: the same for a path with ".mp4" in it
NeverWritesMp4Input ==
    \A k \in 1..Len(late_procs) :
        (late_procs[k].out # None
            /\ \E p \in 1..Len(late_procs[k].input) : late_procs[k].input[p] = ".mp4")
        => late_procs[k].out[1] # late_procs[k].input

\* C33: after save_project_data the stored project contains none of the
\* deprecated fields orderedSentenceIds, excludedSentenceIds and
\* excludedWordIds, whatever the saved ProjectData held, so a following
\* load_project_data of that project returns these three fields absent and
\* every other field equal to what was saved.
DeprecatedFields == {"ordered_sentence_ids", "excluded_sentence_ids", "excluded_word_ids"}
Loaded ==
    /\ project_call.op = "load"
    /\ project_call.ret.tag = "Ok"
    /\ project_call.ret.val # None

C33_DeprecatedRemovedOnSave ==
    /\ \A id \in ProjectIds :
        (project_saved[id] # None /\ disk[id] # None) =>
            \A f \in DeprecatedFields : JsonKey[f] \notin DOMAIN disk[id][1].object
    /\ Loaded =>
        /\ project_saved[project_call.id] # None
        /\ \A f \in DOMAIN JsonKey :
            project_call.ret.val[1][f] =
                IF f \in DeprecatedFields THEN None
                ELSE project_saved[project_call.id][1][f]

\* what does hold: a load after a save returns the ProjectData as it was
\* saved, deprecated fields included
LoadReturnsWhatWasSaved ==
    Loaded => project_call.ret.val = project_saved[project_call.id]

====
